---- MODULE Spec2Model ----
(***************************************************************************)
(* Model of the broker delivery pipeline of pavedroad-io/go-core/logger:   *)
(*   - KafkaProducer.sendMessage / getKey      (kafka.go, latest revision) *)
(*   - CloudEvents.ceGetID / ceAddFields       (cloudevents.go)            *)
(*   - ZapKafkaWriter.Write / Close            (zap_writer.go)             *)
(* A record (Go map[string]interface{}) is a function from the names of    *)
(* the keys present to tagged values; a payload (JSON text) is a sequence  *)
(* of key/value pairs, so that json.Unmarshal (last duplicate wins) and    *)
(* json.Marshal (keys sorted) are real conversions.                        *)
(***************************************************************************)
EXTENDS Integers, Sequences, FiniteSets, TLC

\* ------------------------------------------------------------------ bounds
\* number of sendMessage calls made directly (Sender.SendCE, hook Fire)
MaxSends == 2
\* goroutines sharing one ZapKafkaWriter
NumGoroutines == 3
\* calls (Write or Close) made by all goroutines together
MaxCalls == 3
\* log calls made on one logger
MaxLogs == 7
\* goroutines calling sendMessage on one wrapper at the same time
NumSenders == 2
\* messages producer.Input() holds before a send to it blocks
QueueCap == 1
\* Logger values the program holds: the one from NewLogger and those derived
\* from it through WithFields
MaxHandles == 2

\* ------------------------------------------------------------------ values
Str(s) == [t |-> "str", v |-> s]
\* a JSON number (decoded to float64): any value that is not a Go string
Num(s) == [t |-> "num", v |-> s]
\* a Go value json.Marshal rejects (func, chan), only ever set by a hook
Unserializable == [t |-> "func", v |-> ""]
\* the nil interface a map lookup yields for a key that is not there
NilValue == [t |-> "nil", v |-> ""]

IsString(x) == x.t = "str"

EmptyMap == [k \in {} |-> NilValue]
Get(m, k) == IF k \in DOMAIN m THEN m[k] ELSE NilValue
Put(m, k, x) == [j \in DOMAIN m \cup {k} |-> IF j = k THEN x ELSE m[j]]
Delete(m, k) == [j \in DOMAIN m \ {k} |-> m[j]]

TopicKey == "topic"
CEIDKey == "id"
CESubjectKey == "subject"
CEDataKey == "data"
CESourceKey == "source"
CESpecVersionKey == "specversion"
CETypeKey == "type"

\* every key a record of this model can carry, in byte order (json.Marshal
\* writes map keys sorted)
SortedKeys == <<"data", "id", "level", "msg", "source", "specversion",
                "subject", "topic", "type">>

\* ---------------------------------------------------------------- payloads
Pair(k, x) == [k |-> k, x |-> x]
Object(pairs) == [kind |-> "object", pairs |-> pairs]
Malformed == [kind |-> "malformed", pairs |-> <<>>]
JSONNull == [kind |-> "null", pairs |-> <<>>]
\* the output of a text formatter or console encoder: no JSON
Text(pairs) == [kind |-> "text", pairs |-> pairs]

Payloads ==
  { Malformed,
    JSONNull,
    Object(<<Pair("data", Str("hello")), Pair("subject", Str("info"))>>),
    Object(<<Pair("data", Str("hello")), Pair("level", Str("info")),
             Pair("topic", Str("custom"))>>),
    Object(<<Pair("data", Str("bye")), Pair("subject", Str("warn")),
             Pair("topic", Num("7"))>>),
    Object(<<Pair("data", Str("hello")), Pair("subject", Num("7")),
             Pair("id", Str("myid"))>>),
    Object(<<Pair("subject", Str("")), Pair("data", Str("hello")),
             Pair("level", Str(""))>>),
    Object(<<Pair("subject", Str("info"))>>),
    Object(<<Pair("subject", Str("warn")), Pair("data", Str("bye")),
             Pair("subject", Str("info")), Pair("id", Str("myid"))>>) }

\* ------------------------------------------------------- encoding/json
RECURSIVE UnmarshalPairs(_)
UnmarshalPairs(pairs) ==
  IF pairs = <<>> THEN EmptyMap
  ELSE Put(UnmarshalPairs(SubSeq(pairs, 1, Len(pairs) - 1)),
           pairs[Len(pairs)].k, pairs[Len(pairs)].x)

\* json.Unmarshal(msg, &msgMap): an error for text that is no JSON object,
\* a nil map and no error for the text null
Unmarshal(p) ==
  CASE p.kind \in {"malformed", "text"} ->
         [err |-> TRUE, isNil |-> TRUE, map |-> EmptyMap]
    [] p.kind = "null" -> [err |-> FALSE, isNil |-> TRUE, map |-> EmptyMap]
    [] OTHER -> [err |-> FALSE, isNil |-> FALSE, map |-> UnmarshalPairs(p.pairs)]

RECURSIVE MarshalFrom(_, _)
MarshalFrom(m, i) ==
  IF i > Len(SortedKeys) THEN <<>>
  ELSE (IF SortedKeys[i] \in DOMAIN m
        THEN <<Pair(SortedKeys[i], m[SortedKeys[i]])>> ELSE <<>>)
       \o MarshalFrom(m, i + 1)

\* json.Marshal(msgMap)
Marshal(isNil, m) ==
  IF \E k \in DOMAIN m : m[k].t = "func"
  THEN [err |-> TRUE, text |-> Malformed]
  ELSE IF isNil THEN [err |-> FALSE, text |-> JSONNull]
  ELSE [err |-> FALSE, text |-> Object(MarshalFrom(m, 1))]

\* ------------------------------------------------------- strconv / fmt
Digits == <<"0", "1", "2", "3", "4", "5", "6", "7", "8", "9">>

RECURSIVE Itoa(_)
Itoa(n) == IF n < 10 THEN Digits[n + 1]
           ELSE Itoa(n \div 10) \o Digits[(n % 10) + 1]

RECURSIVE PadLeft(_, _)
PadLeft(s, width) == IF Len(s) >= width THEN s ELSE PadLeft("0" \o s, width)

\* fmt.Sprintf("%d", i): an id without the zero padding
FormatID_NoPad(i) == Itoa(i)

\* fmt.Sprintf("%020d", i)
IDWidth == 20
FormatID(i) == PadLeft(Itoa(i), IDWidth)

\* strconv.Itoa(int(time.Now().UnixNano())) for a time of sec seconds and
\* nsec nanoseconds after the epoch
NanoString(sec, nsec) == Itoa(sec) \o PadLeft(Itoa(nsec), 9)

\* ------------------------------------------------------------ configuration
FixedKey == "fixed"
ExtractedKey == "extracted"
TimeSecondKey == "second"
TimeNanoSecondKey == "nanosecond"
FunctionKey == "function"
LevelKey == "level"

CEHMAC == "hmac"
CEUUID == "uuid"
CEIncrID == "incr"
CEFuncID == "func"

\* defaultProducerConfiguration and defaultCloudEventsConfiguration
DefaultTopic == "logs"
DefaultKeyName == "username"
DefaultHMACKey == "pavedroad"
DefaultSource == "http://github.com/pavedroad-io/go-core/logger"
DefaultSpecVersion == "1.0"
DefaultType == "io.pavedroad.cloudevents.log"
DefaultBrokers == <<"localhost:9092">>

\* a ProducerConfiguration with every field set
ProducerConfiguration(brokers, key, keyName, topic, retry, tls) ==
  [Brokers |-> brokers, Key |-> key, KeyName |-> keyName, Topic |-> topic,
   ProdRetryMax |-> retry[1], ProdRetryFreq |-> retry[2],
   MetaRetryMax |-> retry[3], MetaRetryFreq |-> retry[4],
   EnableTLS |-> tls[1], TLSCfg |-> tls[2]]

\* a ProducerConfiguration that sets the key strategy, the key name and the
\* topic and leaves the rest at the zero value
PCfg(key, keyName, topic) ==
  ProducerConfiguration(<<>>, key, keyName, topic, <<0, 0, 0, 0>>,
                        <<FALSE, "nil">>)

\* a CloudEventsConfiguration with every field set, and whether the
\* configuration around it enables cloudevents
CloudEventsConfiguration(on, setID, hmacKey, subj, source, specVersion, type) ==
  [EnableCloudEvents |-> on, SetID |-> setID, HMACKey |-> hmacKey,
   SetSubjectLevel |-> subj, Source |-> source, SpecVersion |-> specVersion,
   Type |-> type]

\* a CloudEventsConfiguration that leaves source, specversion and type unset
CECfg(on, setID, hmacKey, subj) ==
  CloudEventsConfiguration(on, setID, hmacKey, subj, "", "", "")

CEOff == CECfg(FALSE, CEHMAC, "", FALSE)
CEDefault == CECfg(TRUE, CEHMAC, "", TRUE)

\* the configurations a logger or sender is built from: each key strategy
\* without cloudevents and with the default cloudevents configuration, and
\* each id strategy with a fixed key and with an extracted key
Configs ==
  ({ PCfg(FixedKey, "", ""), PCfg(ExtractedKey, "subject", ""),
     PCfg(ExtractedKey, "id", "events"), PCfg(TimeSecondKey, "", ""),
     PCfg(TimeNanoSecondKey, "", "events"), PCfg(FunctionKey, "", ""),
     PCfg(LevelKey, "", "events") } \X {CEOff, CEDefault})
  \cup
  ({ PCfg(FixedKey, "svc1", "events"), PCfg(ExtractedKey, "id", "") }
   \X { CECfg(TRUE, CEHMAC, "secret", FALSE), CECfg(TRUE, CEUUID, "", TRUE),
        CECfg(TRUE, CEIncrID, "", TRUE), CECfg(TRUE, CEFuncID, "", TRUE) })
  \cup
  { <<PCfg(LevelKey, "", ""), CECfg(TRUE, CEIncrID, "", FALSE)>> }

\* newCloudEvents: the configuration with defaults for empty strings
OrDefault(s, default) == IF s = "" THEN default ELSE s

\* CloudEvents: config, fields, and the key hmacHash was created with
CloudEvents(config, hashKey) ==
  [SetID |-> config.SetID, HMACKey |-> config.HMACKey,
   Source |-> config.Source, SpecVersion |-> config.SpecVersion,
   Type |-> config.Type, SetSubjectLevel |-> config.SetSubjectLevel,
   fields |-> << Pair(CESourceKey, Str(config.Source)),
                 Pair(CESpecVersionKey, Str(config.SpecVersion)),
                 Pair(CETypeKey, Str(config.Type)) >>,
   hashKey |-> hashKey]

\* the configuration with the defaults in place of the empty strings
ceDefaults(cfg) ==
  [cfg EXCEPT !.HMACKey = OrDefault(cfg.HMACKey, DefaultHMACKey),
              !.Source = OrDefault(cfg.Source, DefaultSource),
              !.SpecVersion = OrDefault(cfg.SpecVersion, DefaultSpecVersion),
              !.Type = OrDefault(cfg.Type, DefaultType)]

\* newCloudEvents: the defaults overridden by the non-empty strings of cfg,
\* and hmac.New with the HMAC key of the result
newCloudEvents(cfg) ==
  CloudEvents(ceDefaults(cfg), ceDefaults(cfg).HMACKey)

\* newCloudEvents, second variant: ce.config gets the defaults for the empty
\* strings, and hmac.New is given HMACKey of the parameter
newCloudEvents2(config) ==
  CloudEvents(ceDefaults(config), config.HMACKey)

\* newKafkaProducer that keeps an empty topic and an empty key name
newKafkaProducer_KeepsEmpty(config, ceConfig) ==
  [Brokers |-> IF Len(config.Brokers) = 0 \/ config.Brokers[1] = ""
               THEN DefaultBrokers ELSE config.Brokers,
   Key |-> config.Key,
   KeyName |-> config.KeyName,
   Topic |-> config.Topic,
   enableCE |-> ceConfig.EnableCloudEvents,
   levelKey |-> IF ceConfig.EnableCloudEvents /\ ceConfig.SetSubjectLevel
                THEN CESubjectKey ELSE "level"]

\* newKafkaProducer: the wrapper's fields, defaults for an empty broker list,
\* an empty topic and an empty fixed key name
newKafkaProducer(config, ceConfig) ==
  [Brokers |-> IF Len(config.Brokers) = 0 \/ config.Brokers[1] = ""
               THEN DefaultBrokers ELSE config.Brokers,
   Key |-> config.Key,
   KeyName |-> IF config.Key = FixedKey /\ config.KeyName = ""
               THEN DefaultKeyName ELSE config.KeyName,
   Topic |-> IF config.Topic = "" THEN DefaultTopic ELSE config.Topic,
   enableCE |-> ceConfig.EnableCloudEvents,
   levelKey |-> IF ceConfig.EnableCloudEvents /\ ceConfig.SetSubjectLevel
                THEN CESubjectKey ELSE "level"]

\* ------------------------------------------------------------------- hooks
\* KeyFunc values a logger registers: none, or a function that returns the
\* record's data string (the empty string when it has none)
KeyFns == {"nil", "dataKey"}
\* FilterFunc values: none; one that redacts data and drops subject; one that
\* stores a value that cannot be serialised
FilterFns == {"nil", "redact", "poison"}

callKeyFn(fn, m) ==
  IF IsString(Get(m, CEDataKey)) THEN Get(m, CEDataKey).v ELSE ""

callFilterFn(fn, m) ==
  CASE fn = "redact" ->
         Delete(IF CEDataKey \in DOMAIN m THEN Put(m, CEDataKey, Str("xxx")) ELSE m,
                CESubjectKey)
    [] fn = "poison" ->
         IF CEDataKey \in DOMAIN m THEN Put(m, CEDataKey, Unserializable) ELSE m
    [] OTHER -> m

\* ------------------------------------------------------------------- state
VARIABLES
  kp,          \* KafkaProducer: config after defaults, enableCE, levelKey
  ce,          \* CloudEvents.config
  filterFn,    \* kp.config.filterFn
  keyFn,       \* kp.config.keyFn
  hmacText,    \* bytes written so far to ce.hmacHash
  incr,        \* the counter i captured by genIncrementalID
  input,       \* messages placed on producer.Input(), oldest first
  last,        \* what the most recent sendMessage call did
  nSends,      \* sendMessage calls made so far
  closed,      \* ZapKafkaWriter.closed
  pending,     \* counter of ZapKafkaWriter.pendingWg
  closeMut,    \* goroutine holding ZapKafkaWriter.closeMut, 0 when free
  pc,          \* where each goroutine is in Write, Close or sendMessage
  arg,         \* the msg of each goroutine's call
  ret,         \* what each goroutine's call returns, read when it is idle
  lateStart,   \* its current call started when closed was already set
  closeRets,   \* results of the Close calls that returned, oldest first
  nCalls,      \* calls started by the goroutines so far
  loc,         \* the local variables of each goroutine's sendMessage
  lg,          \* the logger: backend, level, sinks and formats
  console,     \* records written to the console writer, oldest first
  file,        \* records written to the log file, oldest first
  calls,       \* the log calls made so far and how each ended
  cons,        \* a construction: the configuration given and what came back
  kube,        \* a KubeConfig and what KubeConfig.New returned for it
  taken,       \* messages the client has received from producer.Input()
  handles,     \* the Logger values the program holds, the first from NewLogger
  logger       \* the package-level logger: an index into handles, 0 for nil

pipeVars == <<kp, ce, filterFn, keyFn, hmacText, incr, input, last, nSends>>
writerVars == <<closed, pending, closeMut, pc, arg, ret, lateStart, closeRets,
                nCalls>>
logVars == <<lg, console, file, calls, cons, kube, taken, handles, logger>>
vars == <<kp, ce, filterFn, keyFn, hmacText, incr, input, last, nSends,
          closed, pending, closeMut, pc, arg, ret, lateStart, closeRets, nCalls,
          loc, lg, console, file, calls, cons, kube, taken, handles, logger>>

\* ----------------------------------------------------------------- getKey
\* time.Now() and uuid.NewV4() as seen by one call
Env(sec, nsec, uuid, uuidOK) ==
  [sec |-> sec, nsec |-> nsec, uuid |-> uuid, uuidOK |-> uuidOK]
Seconds == {1604188800, 1604188801}
NanoSeconds == {0, 5000}
UUIDs == {"6ba7b810-9dad-41d1-80b4-00c04fd430c8",
          "6ba7b811-9dad-41d1-80b4-00c04fd430c8"}

KeyResult(st, key, m, saw) == [st |-> st, key |-> key, map |-> m, keyFnSaw |-> saw]

\* the default branch: msgMap[kp.levelKey].(string)
levelKeyOf(msgMap) ==
  IF IsString(Get(msgMap, kp.levelKey))
  THEN KeyResult("ok", Get(msgMap, kp.levelKey).v, msgMap, <<>>)
  ELSE KeyResult("panic", "", msgMap, <<>>)

\* the extracted branch that takes a key that is not there for an empty key
extractedKeyOf_NoError(msgMap) ==
  IF IsString(Get(msgMap, kp.KeyName))
  THEN KeyResult("ok", Get(msgMap, kp.KeyName).v, Delete(msgMap, kp.KeyName), <<>>)
  ELSE KeyResult("ok", "", msgMap, <<>>)

\* the extracted branch that leaves the key field in the record
extractedKeyOf_KeepField(msgMap) ==
  IF IsString(Get(msgMap, kp.KeyName))
  THEN KeyResult("ok", Get(msgMap, kp.KeyName).v, msgMap, <<>>)
  ELSE KeyResult("err", "", msgMap, <<>>)

\* case ExtractedKey: name, ok := msgMap[kp.config.KeyName].(string)
extractedKeyOf(msgMap) ==
  IF IsString(Get(msgMap, kp.KeyName))
  THEN KeyResult("ok", Get(msgMap, kp.KeyName).v, Delete(msgMap, kp.KeyName), <<>>)
  ELSE KeyResult("err", "", msgMap, <<>>)

\* getKey whose fixed strategy lets a registered key hook choose the key
getKey_FixedAsksHook(msgMap, env) ==
  CASE kp.Key = FixedKey /\ keyFn = "nil" ->
         KeyResult("ok", kp.KeyName, msgMap, <<>>)
    [] kp.Key = ExtractedKey -> extractedKeyOf(msgMap)
    [] kp.Key = TimeSecondKey -> KeyResult("ok", Itoa(env.sec), msgMap, <<>>)
    [] kp.Key = TimeNanoSecondKey ->
         KeyResult("ok", NanoString(env.sec, env.nsec), msgMap, <<>>)
    [] kp.Key \in {FixedKey, FunctionKey} /\ keyFn # "nil" ->
         KeyResult("ok", callKeyFn(keyFn, msgMap), msgMap, <<msgMap>>)
    [] OTHER -> levelKeyOf(msgMap)

\* getKey whose function strategy without a hook leaves the key empty
getKey_NoFallthrough(msgMap, env) ==
  CASE kp.Key = FixedKey -> KeyResult("ok", kp.KeyName, msgMap, <<>>)
    [] kp.Key = ExtractedKey -> extractedKeyOf(msgMap)
    [] kp.Key = TimeSecondKey -> KeyResult("ok", Itoa(env.sec), msgMap, <<>>)
    [] kp.Key = TimeNanoSecondKey ->
         KeyResult("ok", NanoString(env.sec, env.nsec), msgMap, <<>>)
    [] kp.Key = FunctionKey ->
         IF keyFn # "nil"
         THEN KeyResult("ok", callKeyFn(keyFn, msgMap), msgMap, <<msgMap>>)
         ELSE KeyResult("ok", "", msgMap, <<>>)
    [] OTHER -> levelKeyOf(msgMap)

getKey(msgMap, env) ==
  CASE kp.Key = FixedKey -> KeyResult("ok", kp.KeyName, msgMap, <<>>)
    [] kp.Key = ExtractedKey -> extractedKeyOf(msgMap)
    [] kp.Key = TimeSecondKey -> KeyResult("ok", Itoa(env.sec), msgMap, <<>>)
    [] kp.Key = TimeNanoSecondKey ->
         KeyResult("ok", NanoString(env.sec, env.nsec), msgMap, <<>>)
    [] kp.Key = FunctionKey /\ keyFn # "nil" ->
         KeyResult("ok", callKeyFn(keyFn, msgMap), msgMap, <<msgMap>>)
    [] OTHER -> levelKeyOf(msgMap)

\* ------------------------------------------------------------ cloudevents
\* base64(hmacHash.Sum(nil)) after the hash, keyed with key, was fed text
HMACSum(key, text) == "hmac-sha256(" \o key \o "," \o text \o ")"

IDResult(st, id, text, i) == [st |-> st, id |-> id, hmacText |-> text, incr |-> i]

\* ceGetID: the id, and the hash and counter as the call leaves them
ceGetID(msgMap, env) ==
  CASE ce.SetID = CEFuncID -> IDResult("ok", "", hmacText, incr)
    [] ce.SetID = CEIncrID -> IDResult("ok", FormatID(incr + 1), hmacText, incr + 1)
    [] ce.SetID = CEUUID ->
         IF env.uuidOK THEN IDResult("ok", env.uuid, hmacText, incr)
         ELSE IDResult("err", "", hmacText, incr)
    [] OTHER ->
         IF IsString(Get(msgMap, CEDataKey))
         THEN IDResult("ok",
                       HMACSum(ce.hashKey, hmacText \o Get(msgMap, CEDataKey).v),
                       hmacText \o Get(msgMap, CEDataKey).v, incr)
         ELSE IDResult("panic", "", hmacText, incr)

\* ceAddFields: msgMap[CEIDKey] = id unless ceGetID failed; storing into a
\* nil map panics
setID(isNil, msgMap, g) ==
  [st |-> IF g.st = "ok" /\ isNil THEN "panic" ELSE g.st,
   map |-> IF g.st = "ok" /\ ~isNil THEN Put(msgMap, CEIDKey, Str(g.id)) ELSE msgMap,
   hmacText |-> g.hmacText, incr |-> g.incr]

ceAddFields(isNil, msgMap, env) == setID(isNil, msgMap, ceGetID(msgMap, env))

\* ------------------------------------------------------------- sendMessage
Message(topic, key, value) == [Topic |-> topic, Key |-> key, Value |-> value]

\* topic capture that leaves the sidecar field in the record
captureTopic_KeepField(msgMap) ==
  IF TopicKey \in DOMAIN msgMap
  THEN [topic |-> msgMap[TopicKey], map |-> msgMap]
  ELSE [topic |-> Str(kp.Topic), map |-> msgMap]

\* topic, ok := msgMap[TopicKey]; delete it if ok, else kp.config.Topic
captureTopic(msgMap) ==
  IF TopicKey \in DOMAIN msgMap
  THEN [topic |-> msgMap[TopicKey], map |-> Delete(msgMap, TopicKey)]
  ELSE [topic |-> Str(kp.Topic), map |-> msgMap]

\* the steps in the order of an earlier revision: topic, ceAddFields,
\* filterFn, key
pipeline_EnrichFirst(msg, env) ==
  LET u == Unmarshal(msg)
      t == captureTopic(u.map)
      e == IF kp.enableCE THEN ceAddFields(u.isNil, t.map, env)
           ELSE [st |-> "ok", map |-> t.map, hmacText |-> hmacText, incr |-> incr]
      f == IF filterFn # "nil" THEN callFilterFn(filterFn, e.map) ELSE e.map
      k == getKey(f, env)
  IN [u |-> u, topic |-> t.topic, keyIn |-> f, k |-> k, filterIn |-> e.map,
      enrichIn |-> t.map, e |-> [e EXCEPT !.map = k.map],
      j |-> Marshal(u.isNil, k.map)]

\* the steps of sendMessage in the order of its statements, each on the
\* record the one before left: unmarshal, topic, getKey, filterFn,
\* ceAddFields, marshal
\* if kp.config.filterFn != nil { kp.config.filterFn(&msgMap) }
filterStep(msgMap) ==
  IF filterFn # "nil" THEN callFilterFn(filterFn, msgMap) ELSE msgMap

\* if kp.enableCE { err = kp.cloudEvents.ceAddFields(msgMap) }
enrichStep(isNil, msgMap, env) ==
  IF kp.enableCE THEN ceAddFields(isNil, msgMap, env)
  ELSE [st |-> "ok", map |-> msgMap, hmacText |-> hmacText, incr |-> incr]

\* json.Marshal of what enrichment left: what every step received and made
marshalStep(u, t, k, f, e) ==
  [u |-> u, topic |-> t.topic, keyIn |-> t.map, k |-> k, filterIn |-> k.map,
   enrichIn |-> f, e |-> e, j |-> Marshal(u.isNil, e.map)]

afterFilter(u, t, k, f, env) == marshalStep(u, t, k, f, enrichStep(u.isNil, f, env))

afterKey(u, t, k, env) == afterFilter(u, t, k, filterStep(k.map), env)

afterTopic(u, t, env) == afterKey(u, t, getKey(t.map, env), env)

afterUnmarshal(u, env) == afterTopic(u, captureTopic(u.map), env)

pipeline(msg, env) == afterUnmarshal(Unmarshal(msg), env)

\* what a call that has not got anywhere has done
NoCall ==
  [res |-> "none", why |-> "", msg |-> Malformed, msgs |-> <<>>,
   hmacText |-> "", incr |-> 0, filterFn |-> "nil", keyFn |-> "nil",
   topic |-> NilValue, key |-> "", keyIn |-> <<>>, keyOut |-> <<>>,
   keyFnSaw |-> <<>>, filterSaw |-> <<>>, enrichSaw |-> <<>>, final |-> <<>>]

\* the returns of sendMessage and the send to producer.Input(), for the
\* steps p of a call: res is "nil" (returned nil), "err" (returned an error)
\* or "panic"; msgs is what it placed on producer.Input(); hmacText and incr
\* are the state of kp.cloudEvents it leaves; filterFn and keyFn the hooks it
\* read; the other fields are the record as each step that ran received it
outcome(msg, p) ==
  LET s0 == [NoCall EXCEPT !.msg = msg, !.hmacText = hmacText, !.incr = incr,
                           !.filterFn = filterFn, !.keyFn = keyFn]
      s1 == [s0 EXCEPT !.topic = p.topic, !.keyIn = <<p.keyIn>>,
                       !.keyFnSaw = p.k.keyFnSaw]
      s2 == [s1 EXCEPT !.key = p.k.key, !.keyOut = <<p.k.map>>,
                       !.filterSaw = IF filterFn # "nil" THEN <<p.filterIn>> ELSE <<>>,
                       !.enrichSaw = IF kp.enableCE THEN <<p.enrichIn>> ELSE <<>>,
                       !.hmacText = p.e.hmacText, !.incr = p.e.incr]
      s3 == [s2 EXCEPT !.final = <<p.e.map>>]
  IN
  CASE p.u.err -> [s0 EXCEPT !.res = "err", !.why = "unmarshal"]
    [] p.k.st = "err" -> [s1 EXCEPT !.res = "err", !.why = "Extracted key missing"]
    [] p.k.st = "panic" -> [s1 EXCEPT !.res = "panic", !.why = "level is no string"]
    [] p.e.st = "err" -> [s2 EXCEPT !.res = "err", !.why = "uuid"]
    [] p.e.st = "panic" -> [s2 EXCEPT !.res = "panic", !.why = "enrichment"]
    [] p.j.err -> [s3 EXCEPT !.res = "err", !.why = "marshal"]
    [] ~IsString(p.topic) -> [s3 EXCEPT !.res = "panic", !.why = "topic is no string"]
    [] OTHER -> [s3 EXCEPT !.res = "nil",
                           !.msgs = <<Message(p.topic.v, p.k.key, p.j.text)>>]

sendMessage(msg, env) == outcome(msg, pipeline(msg, env))

\* the values of time.Now() and uuid.NewV4() that make a difference to a
\* wrapper configured like this one
Envs ==
  { Env(sec, nsec, uuid, ok) :
      sec \in (IF kp.Key \in {TimeSecondKey, TimeNanoSecondKey}
               THEN Seconds ELSE {1604188800}),
      nsec \in (IF kp.Key = TimeNanoSecondKey THEN NanoSeconds ELSE {0}),
      uuid \in (IF kp.enableCE /\ ce.SetID = CEUUID THEN UUIDs
                ELSE {"6ba7b810-9dad-41d1-80b4-00c04fd430c8"}),
      ok \in (IF kp.enableCE /\ ce.SetID = CEUUID THEN BOOLEAN ELSE {TRUE}) }

\* ------------------------------------------------------------------ actions
Goroutines == 1..NumGoroutines

\* the local variables of a sendMessage call: msgMap, topic and key, the
\* hook values it tested (tested*) and invoked (called*), the counter value
\* it loaded, and how it ended
Locals(isNil, msgMap, topic) ==
  [isNil |-> isNil, map |-> msgMap, topic |-> topic, key |-> "",
   testedKeyFn |-> "none", calledKeyFn |-> "none",
   testedFilterFn |-> "none", calledFilterFn |-> "none",
   i |-> 0, id |-> "", res |-> "none"]

\* no goroutine is inside sendMessage
NoLocals == [g \in Goroutines |-> Locals(TRUE, EmptyMap, NilValue)]

\* no logger was built: the wrapper is used through a Sender or a writer
NoLogger ==
  /\ lg = [backend |-> "none"]
  /\ console = <<>>
  /\ file = <<>>
  /\ calls = <<>>
  /\ cons = [stage |-> "none"]
  /\ kube = [stage |-> "none"]
  /\ taken = 0
  /\ handles = <<>>
  /\ logger = 0

InitWriter ==
  /\ closed = 0
  /\ pending = 0
  /\ closeMut = 0
  /\ pc = [g \in Goroutines |-> "idle"]
  /\ arg = [g \in Goroutines |-> Malformed]
  /\ ret = [g \in Goroutines |-> <<"none", 0, "">>]
  /\ lateStart = [g \in Goroutines |-> FALSE]
  /\ closeRets = <<>>
  /\ nCalls = 0

\* NewSender / newLogrusLogger: newCloudEvents, then newKafkaProducer
Init ==
  /\ \E c \in Configs :
       /\ kp = newKafkaProducer(c[1], c[2])
       /\ ce = newCloudEvents(c[2])
  /\ filterFn = "nil"
  /\ keyFn = "nil"
  /\ hmacText = ""
  /\ incr = 0
  /\ input = <<>>
  /\ last = NoCall
  /\ nSends = 0
  /\ InitWriter
  /\ loc = NoLocals
  /\ NoLogger

\* a call that puts the record on the channel before it looks at the error
doSend_QueueOnError(msg, env) ==
  LET r == sendMessage(msg, env) IN
  /\ hmacText' = r.hmacText
  /\ incr' = r.incr
  /\ input' = IF r.res = "err" THEN Append(input, Message(kp.Topic, r.key, msg))
              ELSE input \o r.msgs
  /\ last' = r
  /\ nSends' = nSends + 1
  /\ UNCHANGED <<kp, ce, filterFn, keyFn>>

\* what a sendMessage call that did r leaves behind
effect(r) ==
  /\ hmacText' = r.hmacText
  /\ incr' = r.incr
  /\ input' = input \o r.msgs
  /\ last' = r
  /\ nSends' = nSends + 1
  /\ UNCHANGED <<kp, ce, filterFn, keyFn>>

\* the effect of one whole sendMessage call on the wrapper
doSend(msg, env) == effect(sendMessage(msg, env))

\* sender.SendCE(msg), LogrusKafkaHook.Fire: one sendMessage call
SendCE ==
  /\ nSends < MaxSends
  /\ \E msg \in Payloads, env \in Envs : doSend(msg, env)
  /\ UNCHANGED writerVars
  /\ UNCHANGED <<loc, logVars>>

\* setFilterFn / WithKafkaFilterFn, registered once
setFilterFn ==
  /\ filterFn = "nil"
  /\ \E fn \in FilterFns \ {"nil"} : filterFn' = fn
  /\ UNCHANGED <<kp, ce, keyFn, hmacText, incr, input, last, nSends>>
  /\ UNCHANGED writerVars
  /\ UNCHANGED <<loc, logVars>>

\* setKeyFn / WithKafkaKeyFn, registered once, on a wrapper with the function
\* strategy, which calls it, or the fixed strategy, which must not
setKeyFn ==
  /\ keyFn = "nil"
  /\ kp.Key \in {FunctionKey, FixedKey}
  /\ \E fn \in KeyFns \ {"nil"} : keyFn' = fn
  /\ UNCHANGED <<kp, ce, filterFn, hmacText, incr, input, last, nSends>>
  /\ UNCHANGED writerVars
  /\ UNCHANGED <<loc, logVars>>

Next == SendCE \/ setFilterFn \/ setKeyFn

Spec == Init /\ [][Next]_vars

\* ---------------------------------------------------------- ZapKafkaWriter
EINVAL == "EINVAL"

\* the msg values goroutines hand to Write
WriterPayloads ==
  { Malformed,
    Object(<<Pair("data", Str("hello")), Pair("subject", Str("info"))>>) }

\* newZapKafkaWriter over a wrapper with a fixed key, with and without
\* cloudevents
InitW ==
  /\ \E ceConfig \in {CEOff, CEDefault} :
       /\ kp = newKafkaProducer(PCfg(FixedKey, "", ""), ceConfig)
       /\ ce = newCloudEvents(ceConfig)
  /\ filterFn = "nil"
  /\ keyFn = "nil"
  /\ hmacText = ""
  /\ incr = 0
  /\ input = <<>>
  /\ last = NoCall
  /\ nSends = 0
  /\ InitWriter
  /\ loc = NoLocals
  /\ NoLogger

\* len(msg): a byte for a brace, some for every pair
Size(p) == 1 + Len(p.pairs)

\* a goroutine calls zw.Write(msg)
WriteCall(g) ==
  /\ pc[g] = "idle"
  /\ nCalls < MaxCalls
  /\ \E msg \in WriterPayloads : arg' = [arg EXCEPT ![g] = msg]
  /\ pc' = [pc EXCEPT ![g] = "w_check"]
  /\ lateStart' = [lateStart EXCEPT ![g] = (closed # 0)]
  /\ nCalls' = nCalls + 1
  /\ UNCHANGED <<closed, pending, closeMut, ret, closeRets>>
  /\ UNCHANGED pipeVars
  /\ UNCHANGED <<loc, logVars>>

\* Write without its test of the closed flag
WriteCheckClosed_NoCheck(g) ==
  /\ pc[g] = "w_check"
  /\ pc' = [pc EXCEPT ![g] = "w_add"]
  /\ UNCHANGED <<closed, pending, closeMut, arg, ret, lateStart, closeRets, nCalls>>
  /\ UNCHANGED pipeVars
  /\ UNCHANGED <<loc, logVars>>

\* if zw.Closed() { return 0, syscall.EINVAL }; kp.producer is never nil on
\* a writer newZapKafkaWriter returned
WriteCheckClosed(g) ==
  /\ pc[g] = "w_check"
  /\ IF closed # 0
     THEN /\ pc' = [pc EXCEPT ![g] = "idle"]
          /\ ret' = [ret EXCEPT ![g] = <<"Write", 0, EINVAL>>]
     ELSE /\ pc' = [pc EXCEPT ![g] = "w_add"]
          /\ ret' = ret
  /\ UNCHANGED <<closed, pending, closeMut, arg, lateStart, closeRets, nCalls>>
  /\ UNCHANGED pipeVars
  /\ UNCHANGED <<loc, logVars>>

\* zw.pendingWg.Add(1), and the call of sendMessage
WriteAdd(g) ==
  /\ pc[g] = "w_add"
  /\ pending' = pending + 1
  /\ pc' = [pc EXCEPT ![g] = "w_send"]
  /\ UNCHANGED <<closed, closeMut, arg, ret, lateStart, closeRets, nCalls>>
  /\ UNCHANGED pipeVars
  /\ UNCHANGED <<loc, logVars>>

\* err := zw.kp.sendMessage(msg) runs to its end; ret[g] holds len(msg), err
\* for the return
WriteSend(g) ==
  /\ pc[g] = "w_send"
  /\ \E env \in Envs :
       /\ doSend(arg[g], env)
       /\ ret' = [ret EXCEPT ![g] = <<"Write", Size(arg[g]), last'.res>>]
  /\ pc' = [pc EXCEPT ![g] = "w_done"]
  /\ UNCHANGED <<closed, pending, closeMut, arg, lateStart, closeRets, nCalls>>
  /\ UNCHANGED <<loc, logVars>>

\* the deferred zw.pendingWg.Done(), and return len(msg), err
WriteDone(g) ==
  /\ pc[g] = "w_done"
  /\ pending' = pending - 1
  /\ pc' = [pc EXCEPT ![g] = "idle"]
  /\ UNCHANGED <<closed, closeMut, arg, ret, lateStart, closeRets, nCalls>>
  /\ UNCHANGED pipeVars
  /\ UNCHANGED <<loc, logVars>>

\* a goroutine calls zw.Close()
CloseCall(g) ==
  /\ pc[g] = "idle"
  /\ nCalls < MaxCalls
  /\ pc' = [pc EXCEPT ![g] = "c_lock"]
  /\ lateStart' = [lateStart EXCEPT ![g] = (closed # 0)]
  /\ nCalls' = nCalls + 1
  /\ UNCHANGED <<closed, pending, closeMut, arg, ret, closeRets>>
  /\ UNCHANGED pipeVars
  /\ UNCHANGED <<loc, logVars>>

\* zw.closeMut.Lock()
CloseLock(g) ==
  /\ pc[g] = "c_lock"
  /\ closeMut = 0
  /\ closeMut' = g
  /\ pc' = [pc EXCEPT ![g] = "c_check"]
  /\ UNCHANGED <<closed, pending, arg, ret, lateStart, closeRets, nCalls>>
  /\ UNCHANGED pipeVars
  /\ UNCHANGED <<loc, logVars>>

\* Close without its test of the closed flag
CloseCheck_NoGuard(g) ==
  /\ pc[g] = "c_check"
  /\ closed' = 1
  /\ pc' = [pc EXCEPT ![g] = "c_wait"]
  /\ UNCHANGED <<pending, closeMut, arg, ret, lateStart, closeRets, nCalls>>
  /\ UNCHANGED pipeVars
  /\ UNCHANGED <<loc, logVars>>

\* if zw.Closed() { return syscall.EINVAL } with the deferred Unlock, else
\* atomic.StoreInt32(&zw.closed, 1)
CloseCheck(g) ==
  /\ pc[g] = "c_check"
  /\ IF closed # 0
     THEN /\ closeMut' = 0
          /\ pc' = [pc EXCEPT ![g] = "idle"]
          /\ ret' = [ret EXCEPT ![g] = <<"Close", 0, EINVAL>>]
          /\ closeRets' = Append(closeRets, EINVAL)
          /\ closed' = closed
     ELSE /\ closed' = 1
          /\ pc' = [pc EXCEPT ![g] = "c_wait"]
          /\ UNCHANGED <<closeMut, ret, closeRets>>
  /\ UNCHANGED <<pending, arg, lateStart, nCalls>>
  /\ UNCHANGED pipeVars
  /\ UNCHANGED <<loc, logVars>>

\* CloseWait that does not wait for the writes in flight
CloseWait_NoWait(g) ==
  /\ pc[g] = "c_wait"
  /\ closeMut' = 0
  /\ pc' = [pc EXCEPT ![g] = "idle"]
  /\ ret' = [ret EXCEPT ![g] = <<"Close", 0, "nil">>]
  /\ closeRets' = Append(closeRets, "nil")
  /\ UNCHANGED <<closed, pending, arg, lateStart, nCalls>>
  /\ UNCHANGED pipeVars
  /\ UNCHANGED <<loc, logVars>>

\* zw.pendingWg.Wait() returns, return nil with the deferred Unlock
CloseWait(g) ==
  /\ pc[g] = "c_wait"
  /\ pending = 0
  /\ closeMut' = 0
  /\ pc' = [pc EXCEPT ![g] = "idle"]
  /\ ret' = [ret EXCEPT ![g] = <<"Close", 0, "nil">>]
  /\ closeRets' = Append(closeRets, "nil")
  /\ UNCHANGED <<closed, pending, arg, lateStart, nCalls>>
  /\ UNCHANGED pipeVars
  /\ UNCHANGED <<loc, logVars>>

NextW ==
  \E g \in Goroutines :
    \/ WriteCall(g) \/ WriteCheckClosed(g) \/ WriteAdd(g) \/ WriteSend(g)
    \/ WriteDone(g)
    \/ CloseCall(g) \/ CloseLock(g) \/ CloseCheck(g) \/ CloseWait(g)

SpecW == InitW /\ [][NextW]_vars

\* ------------------------------------- sendMessage called concurrently
\* Several goroutines call sendMessage on one wrapper (Sender.SendCE has no
\* lock) while hooks are set; a step is a run of statements between two
\* accesses to memory the goroutines share: kp.config.keyFn,
\* kp.config.filterFn and the counter i of incrementalID. None of these
\* accesses is synchronised, so a value tested or incremented is either kept
\* in a register or loaded again.
InitC ==
  /\ kp = newKafkaProducer(PCfg(FunctionKey, "", ""),
                           CECfg(TRUE, CEIncrID, "", TRUE))
  /\ ce = newCloudEvents(CECfg(TRUE, CEIncrID, "", TRUE))
  /\ filterFn \in FilterFns
  /\ keyFn \in KeyFns
  /\ hmacText = ""
  /\ incr = 0
  /\ input = <<>>
  /\ last = NoCall
  /\ nSends = 0
  /\ InitWriter
  /\ loc = NoLocals
  /\ NoLogger

Senders == 1..NumSenders

\* the frame of a step of goroutine g inside sendMessage
sendFrame ==
  /\ UNCHANGED <<kp, ce, filterFn, keyFn, hmacText, last, nSends>>
  /\ UNCHANGED <<closed, pending, closeMut, arg, lateStart, closeRets, nCalls>>
  /\ UNCHANGED logVars

\* goroutine g goes on to step next with the locals l
goOn(g, next, l) ==
  /\ pc' = [pc EXCEPT ![g] = next]
  /\ loc' = [loc EXCEPT ![g] = l]
  /\ ret' = ret

\* goroutine g leaves sendMessage: res is "nil", "err" or "panic"; of its
\* locals the hooks it tested and invoked and the id it made are kept
leave(g, res, l) ==
  /\ pc' = [pc EXCEPT ![g] = "idle"]
  /\ loc' = [loc EXCEPT ![g] =
               [l EXCEPT !.res = res, !.isNil = TRUE, !.map = EmptyMap,
                         !.topic = NilValue, !.key = "", !.i = 0]]
  /\ ret' = [ret EXCEPT ![g] = <<"sendMessage", 0, res>>]

\* after json.Unmarshal gave u and the topic was captured as t
enter(g, u, t) ==
  IF u.err THEN leave(g, "err", Locals(TRUE, EmptyMap, NilValue))
  ELSE goOn(g, "s_keyTest", Locals(u.isNil, t.map, t.topic))

\* sender.SendCE(msg): json.Unmarshal and the capture of the topic
SendCall(g) ==
  /\ g \in Senders
  /\ pc[g] = "idle"
  /\ nCalls < MaxCalls
  /\ \E msg \in WriterPayloads :
       /\ arg' = [arg EXCEPT ![g] = msg]
       /\ enter(g, Unmarshal(msg), captureTopic(Unmarshal(msg).map))
  /\ nCalls' = nCalls + 1
  /\ UNCHANGED <<kp, ce, filterFn, keyFn, hmacText, incr, input, last, nSends>>
  /\ UNCHANGED <<closed, pending, closeMut, lateStart, closeRets>>
  /\ UNCHANGED logVars

\* the key getKey made without a key function
keyed(g, k) ==
  IF k.st = "ok"
  THEN goOn(g, "s_filterTest", [loc[g] EXCEPT !.key = k.key, !.map = k.map])
  ELSE leave(g, k.st, loc[g])

\* getKey: case FunctionKey tests kp.config.keyFn != nil; every other case,
\* and the fallthrough for no key function, is the whole of getKey
KeyTest(g) ==
  /\ pc[g] = "s_keyTest"
  /\ IF kp.Key = FunctionKey /\ keyFn # "nil"
     THEN goOn(g, "s_keyCall", [loc[g] EXCEPT !.testedKeyFn = keyFn])
     ELSE keyed(g, levelKeyOf(loc[g].map))
  /\ incr' = incr
  /\ input' = input
  /\ sendFrame

\* the call of the function value fn as a hook
hookCalled(g, fn, next, l) ==
  IF fn = "nil" THEN leave(g, "panic", l) ELSE goOn(g, next, l)

\* kp.config.keyFn(&msgMap): the value tested or the value there now
KeyCall(g) ==
  /\ pc[g] = "s_keyCall"
  /\ \E fn \in {loc[g].testedKeyFn, keyFn} :
       hookCalled(g, fn, "s_filterTest",
                  [loc[g] EXCEPT !.calledKeyFn = fn,
                                 !.key = callKeyFn(fn, loc[g].map)])
  /\ incr' = incr
  /\ input' = input
  /\ sendFrame

\* if kp.config.filterFn != nil
FilterTest(g) ==
  /\ pc[g] = "s_filterTest"
  /\ IF filterFn # "nil"
     THEN goOn(g, "s_filterCall", [loc[g] EXCEPT !.testedFilterFn = filterFn])
     ELSE goOn(g, "s_idLoad", loc[g])
  /\ incr' = incr
  /\ input' = input
  /\ sendFrame

\* kp.config.filterFn(&msgMap): the value tested or the value there now
FilterCall(g) ==
  /\ pc[g] = "s_filterCall"
  /\ \E fn \in {loc[g].testedFilterFn, filterFn} :
       hookCalled(g, fn, "s_idLoad",
                  [loc[g] EXCEPT !.calledFilterFn = fn,
                                 !.map = callFilterFn(fn, loc[g].map)])
  /\ incr' = incr
  /\ input' = input
  /\ sendFrame

\* ceGetID, case CEIncrID: i++ loads the counter
IDLoad(g) ==
  /\ pc[g] = "s_idLoad"
  /\ goOn(g, "s_idStore", [loc[g] EXCEPT !.i = incr])
  /\ incr' = incr
  /\ input' = input
  /\ sendFrame

\* i++ stores the value it loaded plus one
IDStore(g) ==
  /\ pc[g] = "s_idStore"
  /\ incr' = loc[g].i + 1
  /\ goOn(g, "s_idFormat", loc[g])
  /\ input' = input
  /\ sendFrame

\* fmt.Sprintf("%020d", i) of the value stored or of the value there now,
\* and msgMap[CEIDKey] = id in ceAddFields
IDFormat(g) ==
  /\ pc[g] = "s_idFormat"
  /\ \E v \in {loc[g].i + 1, incr} :
       IF loc[g].isNil THEN leave(g, "panic", loc[g])
       ELSE goOn(g, "s_submit",
                 [loc[g] EXCEPT !.id = FormatID(v),
                                !.map = Put(loc[g].map, CEIDKey, Str(FormatID(v)))])
  /\ incr' = incr
  /\ input' = input
  /\ sendFrame

\* json.Marshal gave j: the send to producer.Input() and the return
submit(g, j) ==
  IF j.err THEN leave(g, "err", loc[g]) /\ input' = input
  ELSE IF ~IsString(loc[g].topic) THEN leave(g, "panic", loc[g]) /\ input' = input
  ELSE /\ leave(g, "nil", loc[g])
       /\ input' = Append(input, Message(loc[g].topic.v, loc[g].key, j.text))

Submit(g) ==
  /\ pc[g] = "s_submit"
  /\ submit(g, Marshal(loc[g].isNil, loc[g].map))
  /\ incr' = incr
  /\ sendFrame

\* setFilterFn(fn) by another goroutine: any FilterFunc, nil too
swapFilterFn ==
  /\ nCalls < MaxCalls
  /\ nCalls' = nCalls + 1
  /\ \E fn \in FilterFns \ {filterFn} : filterFn' = fn
  /\ UNCHANGED <<kp, ce, keyFn, hmacText, incr, input, last, nSends>>
  /\ UNCHANGED <<closed, pending, closeMut, pc, arg, ret, lateStart, closeRets>>
  /\ UNCHANGED <<loc, logVars>>

\* setKeyFn(fn) by another goroutine: any KeyFunc, nil too
swapKeyFn ==
  /\ nCalls < MaxCalls
  /\ nCalls' = nCalls + 1
  /\ \E fn \in KeyFns \ {keyFn} : keyFn' = fn
  /\ UNCHANGED <<kp, ce, filterFn, hmacText, incr, input, last, nSends>>
  /\ UNCHANGED <<closed, pending, closeMut, pc, arg, ret, lateStart, closeRets>>
  /\ UNCHANGED <<loc, logVars>>

NextC ==
  \/ \E g \in Senders :
       \/ SendCall(g) \/ KeyTest(g) \/ KeyCall(g) \/ FilterTest(g)
       \/ FilterCall(g) \/ IDLoad(g) \/ IDStore(g) \/ IDFormat(g) \/ Submit(g)
  \/ swapFilterFn
  \/ swapKeyFn

SpecC == InitC /\ [][NextC]_vars

\* --------------------------------------- the writer over a bounded queue
\* the messages on producer.Input() that the client has not received yet
Queued == Len(input) - taken

\* sendMessage run to its end by a Write: a call that gets as far as the
\* send to producer.Input() blocks there while the channel is full
WriteSendQ(g) ==
  /\ pc[g] = "w_send"
  /\ \E env \in Envs :
       Queued + Len(sendMessage(arg[g], env).msgs) <= QueueCap
  /\ WriteSend(g)

\* the client receives the oldest message from producer.Input()
Accept ==
  /\ Queued > 0
  /\ taken' = taken + 1
  /\ UNCHANGED <<lg, console, file, calls, cons, kube, handles, logger>>
  /\ UNCHANGED pipeVars
  /\ UNCHANGED writerVars
  /\ UNCHANGED loc

\* the steps of a call under way, but for sendMessage: those that need
\* nothing but the processor, and taking closeMut when it is free
StepQ(g) ==
  \/ WriteCheckClosed(g) \/ WriteAdd(g) \/ WriteDone(g)
  \/ CloseLock(g) \/ CloseCheck(g) \/ CloseWait(g)

NextQ ==
  \/ \E g \in Senders :
       WriteCall(g) \/ CloseCall(g) \/ StepQ(g) \/ WriteSendQ(g)
  \/ Accept

\* where WriteSendQ(g) is enabled: the goroutine is at sendMessage and the
\* call ends before the send or the channel has room
SendReady(g) ==
  /\ pc[g] = "w_send"
  /\ \E env \in Envs :
       Queued + Len(sendMessage(arg[g], env).msgs) <= QueueCap

\* the scheduler runs every goroutine that can run, and the client keeps
\* receiving; the third conjunct is weak fairness of WriteSendQ(g), which
\* is enabled where SendReady(g) holds and ends it
FairQ ==
  /\ \A g \in Senders : WF_vars(StepQ(g))
  /\ WF_vars(Accept)
  /\ \A g \in Senders : []<>(~SendReady(g))

SpecQ == InitW /\ [][NextQ]_vars /\ FairQ

\* ------------------------------------------------------------------ logger
LogrusType == "logrus"
ZapType == "zap"

DebugType == "debug"
InfoType == "info"
WarnType == "warn"
ErrorType == "error"

JSONFormat == "json"
TextFormat == "text"
CEFormat == "cloudevents"

\* the logger configurations: either package, level debug or info, every
\* subset of the sinks, every format of the broker sink; cloudevents enabled
\* and the console and file formats as in defaultLoggerConfiguration
LoggerConfigs ==
  { [LogPackage |-> p, LogLevel |-> l, EnableCloudEvents |-> TRUE,
     EnableConsole |-> c, ConsoleFormat |-> TextFormat,
     EnableFile |-> f, FileFormat |-> JSONFormat,
     EnableKafka |-> k, KafkaFormat |-> kf] :
      p \in {LogrusType, ZapType}, l \in {DebugType, InfoType},
      c \in BOOLEAN, f \in BOOLEAN, k \in BOOLEAN,
      kf \in {CEFormat, JSONFormat, TextFormat} }

\* cloudEvents.fields of the default cloudevents configuration
ceFields ==
  << Pair(CESourceKey, Str("http://github.com/pavedroad-io/go-core/logger")),
     Pair(CESpecVersionKey, Str("1.0")),
     Pair(CETypeKey, Str("io.pavedroad.cloudevents.log")) >>

\* a writer a record goes to and the format it is written in
Sink(s, format) == [sink |-> s, format |-> format]

\* newLogrusLogger: the console hook, added inside the branch taken when the
\* file sink is off, if the file sink is on
logrusConsoleHook(config) ==
  IF config.EnableFile THEN <<>>
  ELSE IF config.EnableConsole /\ config.EnableFile
  THEN <<Sink("console", config.ConsoleFormat)>>
  ELSE <<>>

\* newLogrusLogger: lLogger.SetOutput and SetFormatter; ioutil.Discard when
\* neither file nor console is enabled
logrusOut(config) ==
  IF config.EnableFile THEN <<Sink("file", config.FileFormat)>>
  ELSE IF config.EnableConsole /\ ~config.EnableFile
  THEN <<Sink("console", config.ConsoleFormat)>>
  ELSE <<>>

\* newLogrusLogger: lLogger.Hooks.Add(kafkaHook)
logrusKafkaHook(config) ==
  IF config.EnableKafka THEN <<Sink("kafka", config.KafkaFormat)>> ELSE <<>>

\* newLogrusLogger: logrus fires the hooks in the order they were added and
\* then writes to Out
newLogrusLogger(config) ==
  [backend |-> LogrusType, level |-> config.LogLevel,
   ce |-> config.EnableCloudEvents, cfg |-> config,
   sinks |-> logrusConsoleHook(config) \o logrusKafkaHook(config)
               \o logrusOut(config),
   fields |-> <<>>]

\* newZapLogger: a core for each enabled sink, in the order kafka, console,
\* file, under zapcore.NewTee; WithFields(cloudEvents.fields)
newZapLogger(config) ==
  [backend |-> ZapType, level |-> config.LogLevel,
   ce |-> config.EnableCloudEvents, cfg |-> config,
   sinks |-> (IF config.EnableKafka
              THEN <<Sink("kafka", config.KafkaFormat)>> ELSE <<>>)
             \o (IF config.EnableConsole
                 THEN <<Sink("console", config.ConsoleFormat)>> ELSE <<>>)
             \o (IF config.EnableFile
                 THEN <<Sink("file", config.FileFormat)>> ELSE <<>>),
   fields |-> IF config.EnableCloudEvents THEN ceFields ELSE <<>>]

NewLogger(config) ==
  IF config.LogPackage = ZapType THEN newZapLogger(config)
  ELSE newLogrusLogger(config)

\* the calls of executeTests, in its order
Methods ==
  <<"Debugf", "Infof", "Warnf", "Errorf", "Print", "Printf", "Println">>

Script(n) == Methods[((n - 1) % Len(Methods)) + 1]

\* the level a method logs at: Print, Printf and Println log at info
MethodLevel(method) ==
  CASE method = "Debugf" -> DebugType
    [] method = "Warnf" -> WarnType
    [] method = "Errorf" -> ErrorType
    [] OTHER -> InfoType

LevelRank(level) ==
  CASE level = DebugType -> 0
    [] level = InfoType -> 1
    [] level = WarnType -> 2
    [] OTHER -> 3

\* logger.Level / the level of every zap core
LevelEnabled(level) == LevelRank(level) >= LevelRank(lg.level)

\* the fields a call is made with: none, or WithFields(LogFields{TopicKey: 7})
LogFieldSets == { <<>>, <<Pair(TopicKey, Num("7"))>> }

Entry(method, fields) ==
  [method |-> method, level |-> MethodLevel(method),
   msg |-> method \o " using", fields |-> fields]

\* getFormatter: JSONFormatter; ceFormatter with the field map and the
\* cloudevents fields; TextFormatter
FormatLogrus(format, e) ==
  CASE format = JSONFormat ->
         Object(e.fields \o <<Pair("level", Str(e.level)), Pair("msg", Str(e.msg))>>)
    [] format = CEFormat ->
         Object(e.fields \o ceFields
                \o <<Pair(IF lg.ce THEN CEDataKey ELSE "msg", Str(e.msg)),
                     Pair(IF lg.ce THEN CESubjectKey ELSE "level", Str(e.level))>>)
    [] OTHER ->
         Text(<<Pair("level", Str(e.level)), Pair("msg", Str(e.msg))>> \o e.fields)

\* getEncoder: the JSON encoder with the message and level keys of
\* cloudevents, or the console encoder; the fields of the logger follow
FormatZap(format, e) ==
  IF format \in {JSONFormat, CEFormat}
  THEN Object(<<Pair(IF lg.ce THEN CESubjectKey ELSE "level", Str(e.level)),
                Pair(IF lg.ce THEN CEDataKey ELSE "msg", Str(e.msg))>>
              \o lg.fields \o e.fields)
  ELSE Text(<<Pair("level", Str(e.level)), Pair("msg", Str(e.msg))>>
            \o lg.fields \o e.fields)

Format(format, e) ==
  IF lg.backend = LogrusType THEN FormatLogrus(format, e)
  ELSE FormatZap(format, e)

\* where the broker sink is among the sinks, 0 if it is not there
KafkaAt ==
  IF \E i \in 1..Len(lg.sinks) : lg.sinks[i].sink = "kafka"
  THEN CHOOSE i \in 1..Len(lg.sinks) : lg.sinks[i].sink = "kafka"
  ELSE 0

\* what the writer s receives for the entry e from the sinks i, i+1, ...: a
\* panic in the broker sink ends the call before the sinks after it
RECURSIVE writesFrom(_, _, _, _)
writesFrom(i, s, e, panicked) ==
  IF i > Len(lg.sinks) THEN <<>>
  ELSE (IF lg.sinks[i].sink = s /\ (~panicked \/ i < KafkaAt)
        THEN <<Format(lg.sinks[i].format, e)>> ELSE <<>>)
       \o writesFrom(i + 1, s, e, panicked)

Call(e, how) == [method |-> e.method, fields |-> e.fields, ret |-> how]

\* a call at an enabled level on a logger without the broker sink
deliverLocal(e) ==
  /\ console' = console \o writesFrom(1, "console", e, FALSE)
  /\ file' = file \o writesFrom(1, "file", e, FALSE)
  /\ calls' = Append(calls, Call(e, "returned"))
  /\ UNCHANGED pipeVars

\* a call at an enabled level on a logger with the broker sink, whose
\* sendMessage did r: an error is reported by the library and the other
\* sinks go on, a panic unwinds the log call
deliver(e, r) ==
  /\ console' = console \o writesFrom(1, "console", e, r.res = "panic")
  /\ file' = file \o writesFrom(1, "file", e, r.res = "panic")
  /\ calls' = Append(calls, Call(e, IF r.res = "panic" THEN "panic" ELSE "returned"))
  /\ effect(r)

\* a call below the level of the logger
dropped(e) ==
  /\ calls' = Append(calls, Call(e, "returned"))
  /\ UNCHANGED <<console, file>>
  /\ UNCHANGED pipeVars

logCall(e, env) ==
  IF ~LevelEnabled(e.level) THEN dropped(e)
  ELSE IF KafkaAt = 0 THEN deliverLocal(e)
  ELSE deliver(e, sendMessage(Format(lg.sinks[KafkaAt].format, e), env))

\* a log call ended in a panic: the goroutine did not come back
Crashed == \E i \in 1..Len(calls) : calls[i].ret = "panic"

InitL ==
  /\ lg \in {NewLogger(config) : config \in LoggerConfigs}
  /\ kp = newKafkaProducer(PCfg(FixedKey, "", ""), CEDefault)
  /\ ce = newCloudEvents(CEDefault)
  /\ filterFn = "nil"
  /\ keyFn = "nil"
  /\ hmacText = ""
  /\ incr = 0
  /\ input = <<>>
  /\ last = NoCall
  /\ nSends = 0
  /\ InitWriter
  /\ loc = NoLocals
  /\ console = <<>>
  /\ file = <<>>
  /\ calls = <<>>
  /\ cons = [stage |-> "none"]
  /\ kube = [stage |-> "none"]
  /\ taken = 0
  /\ handles = <<>>
  /\ logger = 0

\* the next call of the script, with or without fields
Log ==
  /\ Len(calls) < MaxLogs
  /\ ~Crashed
  /\ \E fields \in LogFieldSets, env \in Envs :
       logCall(Entry(Script(Len(calls) + 1), fields), env)
  /\ UNCHANGED writerVars
  /\ UNCHANGED <<loc, lg, cons, kube, taken, handles, logger>>

NextL == Log

SpecL == InitL /\ [][NextL]_vars

\* ------------------------------------------------------------ construction
\* what sarama.NewConfig() returns for the settings the wrapper sets
SaramaDefaults ==
  [ProdRetryMax |-> 3, ProdRetryFreq |-> 100, MetaRetryMax |-> 3,
   MetaRetryFreq |-> 250, TLSEnable |-> FALSE, TLSConfig |-> "nil"]

\* newKafkaProducer: the client configuration handed to
\* sarama.NewAsyncProducer
saramaConfig(config) ==
  [ProdRetryMax |-> config.ProdRetryMax,
   ProdRetryFreq |-> config.ProdRetryFreq,
   MetaRetryMax |-> config.MetaRetryMax,
   MetaRetryFreq |-> config.MetaRetryFreq,
   TLSEnable |-> IF config.EnableTLS THEN TRUE ELSE SaramaDefaults.TLSEnable,
   TLSConfig |-> IF config.EnableTLS THEN config.TLSCfg
                 ELSE SaramaDefaults.TLSConfig]

\* checkProducerConfig without the test of the TLS configuration
checkProducerConfig_NoTLSTest(p) ==
  (IF p.ProdRetryMax < 0 THEN 1 ELSE 0)
  + (IF p.ProdRetryFreq < 0 THEN 1 ELSE 0)
  + (IF p.MetaRetryMax < 0 THEN 1 ELSE 0)
  + (IF p.MetaRetryFreq < 0 THEN 1 ELSE 0)

\* checkProducerConfig: the errors counted for the producer configuration
checkProducerConfig(p) ==
  (IF p.EnableTLS /\ p.TLSCfg = "nil" THEN 1 ELSE 0)
  + (IF p.ProdRetryMax < 0 THEN 1 ELSE 0)
  + (IF p.ProdRetryFreq < 0 THEN 1 ELSE 0)
  + (IF p.MetaRetryMax < 0 THEN 1 ELSE 0)
  + (IF p.MetaRetryFreq < 0 THEN 1 ELSE 0)

\* checkCETypes: the errors counted for the cloudevents configuration
checkCETypes(c) ==
  IF c.SetID \in {CEHMAC, CEUUID, CEIncrID, CEFuncID, ""} THEN 0 ELSE 1

\* the producer configurations given to a constructor
ProducerInputs ==
  { ProducerConfiguration(brokers, k[1], k[2], k[3], retry, tls) :
      brokers \in {<<>>, <<"">>, <<"kafka:9092">>},
      k \in {<<FixedKey, "", "">>, <<FixedKey, "svc1", "events">>,
             <<LevelKey, "", "events">>},
      retry \in {<<0, 0, 0, 0>>, <<5, 200, 7, 500>>, <<0, 200, 7, 0>>},
      tls \in {<<FALSE, "nil">>, <<TRUE, "nil">>, <<TRUE, "tls.Config">>} }

\* the cloudevents configurations given to a constructor
CloudEventsInputs ==
  { CEOff }
  \cup
  { CloudEventsConfiguration(TRUE, sid, hmacKey, TRUE, f[1], f[2], f[3]) :
      sid \in {CEHMAC, CEIncrID},
      hmacKey \in {"", DefaultHMACKey, "secret"},
      f \in {<<"", "", "">>, <<"http://example/test", "", "">>,
             <<"http://example/test", "1.0", "test.event">>} }

\* the variants of newCloudEvents
Variants == {"first", "second"}

newCloudEventsOf(variant, cfg) ==
  IF variant = "first" THEN newCloudEvents(cfg) ELSE newCloudEvents2(cfg)

NoWrapper == [Key |-> "nil"]
NoCloudEvents == [SetID |-> "nil"]
NoSarama == [ProdRetryMax |-> -1]

Construction(stage, variant, p, c, by, err, client) ==
  [stage |-> stage, variant |-> variant, prod |-> p, cecfg |-> c, by |-> by,
   err |-> err, sarama |-> client]

InitN ==
  /\ cons \in { Construction("config", v, p, c, "", "", NoSarama) :
                  v \in Variants, p \in ProducerInputs, c \in CloudEventsInputs }
  /\ kp = NoWrapper
  /\ ce = NoCloudEvents
  /\ filterFn = "nil"
  /\ keyFn = "nil"
  /\ hmacText = ""
  /\ incr = 0
  /\ input = <<>>
  /\ last = NoCall
  /\ nSends = 0
  /\ InitWriter
  /\ loc = NoLocals
  /\ lg = [backend |-> "none"]
  /\ console = <<>>
  /\ file = <<>>
  /\ calls = <<>>
  /\ kube = [stage |-> "none"]
  /\ taken = 0
  /\ handles = <<>>
  /\ logger = 0

\* a constructor returns nil and an error
failed(by, err) ==
  /\ cons' = [cons EXCEPT !.stage = "failed", !.by = by, !.err = err]
  /\ UNCHANGED <<kp, ce>>

\* newCloudEvents when cloudevents are enabled, then newKafkaProducer, whose
\* sarama.NewAsyncProducer reaches the brokers or does not
build(by, dial) ==
  IF dial
  THEN /\ ce' = IF cons.cecfg.EnableCloudEvents
                THEN newCloudEventsOf(cons.variant, cons.cecfg) ELSE NoCloudEvents
       /\ kp' = newKafkaProducer(cons.prod, cons.cecfg)
       /\ cons' = [cons EXCEPT !.stage = "built", !.by = by,
                               !.sarama = saramaConfig(cons.prod)]
  ELSE failed(by, "NewAsyncProducer")

\* NewSender(config)
NewSender ==
  /\ cons.stage = "config"
  /\ IF checkProducerConfig(cons.prod)
          + (IF cons.cecfg.EnableCloudEvents THEN checkCETypes(cons.cecfg) ELSE 0) > 0
     THEN failed("NewSender", "Invalid configuration")
     ELSE \E dial \in BOOLEAN : build("NewSender", dial)
  /\ UNCHANGED <<filterFn, keyFn, hmacText, incr, input, last, nSends>>
  /\ UNCHANGED writerVars
  /\ UNCHANGED <<loc, lg, console, file, calls, kube, taken, handles, logger>>

\* checkConfig for a logger with the broker sink enabled
checkConfig(p, c) ==
  IF checkProducerConfig(p)
       + (IF c.EnableCloudEvents THEN checkCETypes(c) ELSE 0) > 0
  THEN "Invalid configuration" ELSE ""

\* NewLogger(config) with EnableKafka: checkConfig, then newZapLogger or
\* newLogrusLogger, which builds the wrapper of its broker sink
NewLoggerKafka ==
  /\ cons.stage = "config"
  /\ \E pkg \in {ZapType, LogrusType} :
       IF checkConfig(cons.prod, cons.cecfg) # ""
       THEN failed(pkg, checkConfig(cons.prod, cons.cecfg))
       ELSE \E dial \in BOOLEAN : build(pkg, dial)
  /\ UNCHANGED <<filterFn, keyFn, hmacText, incr, input, last, nSends>>
  /\ UNCHANGED writerVars
  /\ UNCHANGED <<loc, lg, console, file, calls, kube, taken, handles, logger>>

\* Sender.SendCE on the sender NewSender returned
SendBuilt ==
  /\ cons.stage = "built"
  /\ cons.by = "NewSender"
  /\ nSends < MaxSends
  /\ \E msg \in WriterPayloads, env \in Envs : doSend(msg, env)
  /\ UNCHANGED writerVars
  /\ UNCHANGED <<loc, logVars>>

NextN == NewSender \/ NewLoggerKafka \/ SendBuilt

SpecN == InitN /\ [][NextN]_vars

\* ----------------------------------------------------------------- kubeutil
\* text is a sequence of one-character strings, so that strings.Split and
\* strconv.Atoi work on it as they do on a Go string
_kinds == { <<"K","u","b","e","C","o","n","f","i","g">> }

_versions ==
  { <<"e","v","e","n","t","o","r","c","h","e","s","t","r","a","t","o","r",
      "/","v","1","a","l","p","h","a","1">> }

_resources ==
  { <<"d","e","p","l","o","y","m","e","n","t">>,
    <<"s","e","r","v","i","c","e">>,
    <<"i","n","g","r","e","s","s">>,
    <<"s","e","c","r","e","t">>,
    <<"c","o","n","f","i","g","m","a","p">>,
    <<"p","e","r","s","i","s","t","e","n","t","v","o","l","u","m","e">>,
    <<"p","e","r","s","i","s","t","e","n","t","v","o","l","u","m","e",
      "c","l","a","i","m">>,
    <<"n","a","m","e","s","p","a","c","e">>,
    <<"S","e","c","r","e","t">>,
    <<"E","v","e","n","t","S","o","u","r","c","e">>,
    <<"S","e","n","s","o","r">>,
    <<"W","o","r","k","f","l","o","w">> }

SupportedVersion(version) == version \in _versions

SupportedKind(kind) == kind \in _kinds

SupportedResource(resource) == resource \in _resources

\* ValidContext is a stub that accepts every context
ValidContext(ctx) == TRUE

\* strings.Split(s, sep) for a one-character separator: one part more than
\* there are separators, empty parts included
RECURSIVE Split(_, _)
Split(s, sep) ==
  IF \A i \in 1..Len(s) : s[i] # sep THEN << s >>
  ELSE << SubSeq(s, 1, (CHOOSE i \in 1..Len(s) :
                          s[i] = sep /\ \A j \in 1..(i - 1) : s[j] # sep) - 1) >>
       \o Split(SubSeq(s, (CHOOSE i \in 1..Len(s) :
                             s[i] = sep /\ \A j \in 1..(i - 1) : s[j] # sep) + 1,
                       Len(s)), sep)

IsDigit(c) == \E i \in 1..Len(Digits) : Digits[i] = c

DigitValue(c) == (CHOOSE i \in 1..Len(Digits) : Digits[i] = c) - 1

RECURSIVE TrimZeros(_)
TrimZeros(ds) == IF Len(ds) > 1 /\ ds[1] = "0" THEN TrimZeros(Tail(ds)) ELSE ds

\* a <= b for two digit texts of the same length
RECURSIVE DigitsLeq(_, _)
DigitsLeq(a, b) ==
  IF a = <<>> THEN TRUE
  ELSE IF DigitValue(a[1]) # DigitValue(b[1])
       THEN DigitValue(a[1]) < DigitValue(b[1])
       ELSE DigitsLeq(Tail(a), Tail(b))

\* the largest magnitude of a 64-bit int: 2^63 - 1, and 2^63 below zero
MaxIntText(negative) ==
  <<"9","2","2","3","3","7","2","0","3","6","8","5","4","7","7","5","8","0">>
    \o (IF negative THEN <<"8">> ELSE <<"7">>)

InIntRange(ds, negative) ==
  \/ Len(TrimZeros(ds)) < Len(MaxIntText(negative))
  \/ /\ Len(TrimZeros(ds)) = Len(MaxIntText(negative))
     /\ DigitsLeq(TrimZeros(ds), MaxIntText(negative))

\* the digits of s after an optional sign
Unsigned(s) == IF s # <<>> /\ s[1] \in {"+", "-"} THEN Tail(s) ELSE s

\* strconv.Atoi(s) returns no error: an optional sign, then one or more
\* decimal digits whose value an int holds
AtoiOK(s) ==
  /\ Unsigned(s) # <<>>
  /\ \A i \in 1..Len(Unsigned(s)) : IsDigit(Unsigned(s)[i])
  /\ InIntRange(Unsigned(s), s[1] = "-")

\* ValidManifestDirectory without the test on the number of parts
ValidManifestDirectory_AnyParts(dir) ==
  IF Len(Split(dir, "/")) < 2 THEN "shape"
  ELSE IF ~AtoiOK(Split(dir, "/")[1]) THEN "customerNumber"
  ELSE IF ~SupportedResource(Split(dir, "/")[2]) THEN "resourceType"
  ELSE "nil"

ValidManifestDirectory(dir) ==
  IF Len(Split(dir, "/")) # 2 THEN "shape"
  ELSE IF ~AtoiOK(Split(dir, "/")[1]) THEN "customerNumber"
  ELSE IF ~SupportedResource(Split(dir, "/")[2]) THEN "resourceType"
  ELSE "nil"

KubeConfig(apiVersion, kind, kubectx, namespace, name, dir) ==
  [ ApiVersion |-> apiVersion, Kind |-> kind, Kubectx |-> kubectx,
    Namespace |-> namespace, Name |-> name, ManifestDirectory |-> dir ]

ZeroKubeConfig == KubeConfig(<<>>, <<>>, "", "", "", <<>>)

ManifestDirectories ==
  { <<"0","0","0","1","/","E","v","e","n","t","S","o","u","r","c","e">>,
    <<"/","x","x","x","x","x","/","n","o","n","e">>,
    <<>>,
    <<"0","0","0","1">>,
    <<"/","s","e","r","v","i","c","e">>,
    <<"x","1","/","s","e","r","v","i","c","e">>,
    <<"0","0","0","1","/">>,
    <<"0","0","0","1","/","n","o","n","e">>,
    <<"0","0","0","1","/","s","e","n","s","o","r">>,
    <<"-","7","/","s","e","c","r","e","t">>,
    <<"+","/","s","e","c","r","e","t">>,
    <<"1","2","/","S","e","n","s","o","r","/">>,
    <<"1","2","/","S","e","n","s","o","r","/","a">>,
    <<"9","2","2","3","3","7","2","0","3","6","8","5","4","7","7","5","8","0",
      "7","/","s","e","r","v","i","c","e">>,
    <<"9","2","2","3","3","7","2","0","3","6","8","5","4","7","7","5","8","0",
      "8","/","s","e","r","v","i","c","e">> }

KubeInputs ==
  { KubeConfig(v, k, "dev-kubectx", "argo-events", n, d) :
      v \in _versions \cup { <<"v","2">>, <<>> },
      k \in _kinds \cup { <<"K","u","b","e","B","a","r">> },
      n \in {"", "Good configuration"},
      d \in ManifestDirectories }

\* what New has assigned to the receiver when it returns err
assigned(k, conf, err) ==
  [ k EXCEPT
      !.ApiVersion = IF err = "version" THEN @ ELSE conf.ApiVersion,
      !.Kind = IF err \in {"version", "kind"} THEN @ ELSE conf.Kind,
      !.ManifestDirectory =
          IF err \in {"nil", "name"} THEN conf.ManifestDirectory ELSE @,
      !.Name = IF err = "nil" THEN conf.Name ELSE @,
      !.Namespace = IF err = "nil" THEN conf.Namespace ELSE @ ]

newError(conf) ==
  IF ~SupportedVersion(conf.ApiVersion) THEN "version"
  ELSE IF ~SupportedKind(conf.Kind) THEN "kind"
  ELSE IF ~ValidContext(conf.Kubectx) THEN "kubectx"
  ELSE IF ValidManifestDirectory(conf.ManifestDirectory) # "nil"
       THEN ValidManifestDirectory(conf.ManifestDirectory)
  ELSE IF conf.Name = "" THEN "name"
  ELSE "nil"

InitK ==
  /\ kube \in { [stage |-> "config", conf |-> c, k |-> ZeroKubeConfig,
                 err |-> "nil"] : c \in KubeInputs }
  /\ cons = [stage |-> "none"]
  /\ kp = NoWrapper
  /\ ce = NoCloudEvents
  /\ filterFn = "nil"
  /\ keyFn = "nil"
  /\ hmacText = ""
  /\ incr = 0
  /\ input = <<>>
  /\ last = NoCall
  /\ nSends = 0
  /\ InitWriter
  /\ loc = NoLocals
  /\ lg = [backend |-> "none"]
  /\ console = <<>>
  /\ file = <<>>
  /\ calls = <<>>
  /\ taken = 0
  /\ handles = <<>>
  /\ logger = 0

\* k.New(conf)
New ==
  /\ kube.stage = "config"
  /\ kube' = [kube EXCEPT !.stage = "done",
                          !.err = newError(kube.conf),
                          !.k = assigned(kube.k, kube.conf, newError(kube.conf))]
  /\ UNCHANGED <<lg, console, file, calls, cons, taken, handles, logger>>
  /\ UNCHANGED pipeVars
  /\ UNCHANGED writerVars
  /\ UNCHANGED loc

NextK == New

SpecK == InitK /\ [][NextK]_vars

\* --------------------------------------------- Logger methods and WithFields
FatalType == "fatal"
PanicType == "panic"

\* the methods of the Logger interface that log
LogMethods ==
  { "Print", "Printf", "Println", "Debug", "Debugf", "Debugln",
    "Info", "Infof", "Infoln", "Warn", "Warnf", "Warnln",
    "Error", "Errorf", "Errorln", "Fatal", "Fatalf", "Fatalln",
    "Panic", "Panicf", "Panicln" }

\* the function of zap.SugaredLogger that the zapLogger method calls
zapDelegate(method) ==
  CASE method \in {"Print", "Println", "Infoln"} -> "Info"
    [] method = "Printf" -> "Infof"
    [] method = "Debugln" -> "Debug"
    [] method = "Warnln" -> "Warn"
    [] method = "Errorln" -> "Error"
    [] method = "Fatalln" -> "Fatal"
    [] method = "Panicf" -> "Fatalf"
    [] method = "Panicln" -> "Panic"
    [] OTHER -> method

\* the function of logrus.Logger or logrus.Entry that the logrusLogger or
\* logrusLogEntry method calls
logrusDelegate(method) ==
  CASE method = "Panicf" -> "Fatalf"
    [] OTHER -> method

\* the method of the Logger interface that the package-level function calls
packageDelegate(function) ==
  CASE function \in {"Print", "Println", "Infoln"} -> "Info"
    [] function = "Printf" -> "Infof"
    [] function = "Debugln" -> "Debug"
    [] function = "Warnln" -> "Warn"
    [] function = "Errorln" -> "Error"
    [] function = "Fatalln" -> "Fatal"
    [] function = "Panicf" -> "Fatalf"
    [] function = "Panicln" -> "Panic"
    [] OTHER -> function

\* the level a function of zap or logrus logs at
libraryLevel(function) ==
  CASE function \in {"Print", "Printf", "Println", "Info", "Infof", "Infoln"}
         -> InfoType
    [] function \in {"Debug", "Debugf", "Debugln"} -> DebugType
    [] function \in {"Warn", "Warnf", "Warnln"} -> WarnType
    [] function \in {"Error", "Errorf", "Errorln"} -> ErrorType
    [] function \in {"Fatal", "Fatalf", "Fatalln"} -> FatalType
    [] OTHER -> PanicType

\* what zap and logrus do after they wrote a record of the level: os.Exit(1)
\* after fatal, panic after panic
libraryEnding(level) ==
  CASE level = FatalType -> "exit"
    [] level = PanicType -> "panic"
    [] OTHER -> "returned"

\* a Logger value: zapLogger{sugaredLogger, kafkaWriter},
\* logrusLogger{logger, kafkaHook} or logrusLogEntry{entry, kafkaHook}; hook
\* is the wrapper its kafkaWriter or kafkaHook leads to, "nil" for a nil
\* pointer; fields are those WithFields gave it
Handle(kind, hook, fields) == [kind |-> kind, hook |-> hook, fields |-> fields]

\* the Logger that newZapLogger or newLogrusLogger returns when the broker
\* sink is enabled
rootHandle(backend) ==
  IF backend = ZapType THEN Handle("zapLogger", "kp", <<>>)
  ELSE Handle("logrusLogger", "kp", <<>>)

\* WithFields: zapLogger copies kafkaWriter; logrusLogger and logrusLogEntry
\* build a logrusLogEntry with the entry alone
withFields(h, fields) ==
  IF h.kind = "zapLogger" THEN Handle("zapLogger", h.hook, h.fields \o fields)
  ELSE Handle("logrusLogEntry", "nil", h.fields \o fields)

delegate(h, method) ==
  IF h.kind = "zapLogger" THEN zapDelegate(method) ELSE logrusDelegate(method)

\* the fields WithFields is called with
DerivedFields == <<Pair("request", Str("r1"))>>

\* the loggers of NewLogger with the broker sink in the cloudevents format
MethodConfigs ==
  { config \in LoggerConfigs :
      config.EnableKafka /\ config.KafkaFormat = CEFormat /\ ~config.EnableFile }

\* a call made on the Logger at index handle: kind is "log" or "hook", via
\* "method" or "package", level the level the library was asked to log at
MethodCall(kind, via, handle, method, level, how) ==
  [kind |-> kind, via |-> via, handle |-> handle, method |-> method,
   level |-> level, ret |-> how]

\* the goroutine is gone: it logged (once per behaviour), or a call panicked
Ended ==
  \E i \in 1..Len(calls) : calls[i].kind = "log" \/ calls[i].ret = "panic"

InitM ==
  /\ lg \in {NewLogger(config) : config \in MethodConfigs}
  /\ handles = <<rootHandle(lg.backend)>>
  /\ logger \in {0, 1}
  /\ kp = newKafkaProducer(PCfg(FixedKey, "", ""), CEDefault)
  /\ ce = newCloudEvents(CEDefault)
  /\ filterFn = "nil"
  /\ keyFn = "nil"
  /\ hmacText = ""
  /\ incr = 0
  /\ input = <<>>
  /\ last = NoCall
  /\ nSends = 0
  /\ InitWriter
  /\ loc = NoLocals
  /\ console = <<>>
  /\ file = <<>>
  /\ calls = <<>>
  /\ cons = [stage |-> "none"]
  /\ kube = [stage |-> "none"]
  /\ taken = 0

\* l.WithFields(fields)
WithFields ==
  /\ ~Ended
  /\ Len(handles) < MaxHandles
  /\ \E h \in 1..Len(handles) :
       handles' = Append(handles, withFields(handles[h], DerivedFields))
  /\ UNCHANGED <<lg, console, file, calls, cons, kube, taken, logger>>
  /\ UNCHANGED pipeVars
  /\ UNCHANGED writerVars
  /\ UNCHANGED loc

\* l.WithKafkaFilterFn(fn): l.kafkaWriter.kp or l.kafkaHook.kp is read
\* through the pointer, a nil pointer panics
WithKafkaFilterFn ==
  /\ ~Ended
  /\ filterFn = "nil"
  /\ \E h \in 1..Len(handles), fn \in FilterFns \ {"nil"} :
       IF handles[h].hook = "nil"
       THEN /\ calls' = Append(calls, MethodCall("hook", "method", h,
                                   "WithKafkaFilterFn", "", "panic"))
            /\ UNCHANGED filterFn
       ELSE /\ calls' = Append(calls, MethodCall("hook", "method", h,
                                   "WithKafkaFilterFn", "", "returned"))
            /\ filterFn' = fn
  /\ UNCHANGED <<kp, ce, keyFn, hmacText, incr, input, last, nSends>>
  /\ UNCHANGED <<lg, console, file, cons, kube, taken, handles, logger>>
  /\ UNCHANGED writerVars
  /\ UNCHANGED loc

\* l.WithKafkaKeyFn(fn)
WithKafkaKeyFn ==
  /\ ~Ended
  /\ keyFn = "nil"
  /\ \E h \in 1..Len(handles), fn \in KeyFns \ {"nil"} :
       IF handles[h].hook = "nil"
       THEN /\ calls' = Append(calls, MethodCall("hook", "method", h,
                                   "WithKafkaKeyFn", "", "panic"))
            /\ UNCHANGED keyFn
       ELSE /\ calls' = Append(calls, MethodCall("hook", "method", h,
                                   "WithKafkaKeyFn", "", "returned"))
            /\ keyFn' = fn
  /\ UNCHANGED <<kp, ce, filterFn, hmacText, incr, input, last, nSends>>
  /\ UNCHANGED <<lg, console, file, cons, kube, taken, handles, logger>>
  /\ UNCHANGED writerVars
  /\ UNCHANGED loc

\* the record the library builds for a call of its function at level
EntryAt(method, level, fields) ==
  [method |-> method, level |-> level, msg |-> method \o " using",
   fields |-> fields]

\* the library wrote the entry e to the sinks, the broker sink's sendMessage
\* did r, and the call ended as the level has it
wrote(e, r, c) ==
  /\ console' = console \o writesFrom(1, "console", e, r.res = "panic")
  /\ file' = file \o writesFrom(1, "file", e, r.res = "panic")
  /\ calls' = Append(calls, [c EXCEPT !.ret = IF r.res = "panic" THEN "panic"
                                               ELSE libraryEnding(e.level)])
  /\ effect(r)

\* the library function is called for the Logger at index h
logAt(h, via, method, function, env) ==
  IF ~LevelEnabled(libraryLevel(function))
  THEN /\ calls' = Append(calls, MethodCall("log", via, h, method,
                                            libraryLevel(function), "returned"))
       /\ UNCHANGED <<console, file>>
       /\ UNCHANGED pipeVars
  ELSE wrote(EntryAt(method, libraryLevel(function), handles[h].fields),
             sendMessage(Format(lg.sinks[KafkaAt].format,
                                EntryAt(method, libraryLevel(function),
                                        handles[h].fields)), env),
             MethodCall("log", via, h, method, libraryLevel(function), ""))

\* l.Print(...), ..., l.Panicln(...) on a Logger the program holds
LogMethod ==
  /\ ~Ended
  /\ \E h \in 1..Len(handles), method \in LogMethods, env \in Envs :
       logAt(h, "method", method, delegate(handles[h], method), env)
  /\ UNCHANGED writerVars
  /\ UNCHANGED <<loc, lg, cons, kube, taken, handles, logger>>

\* logger.Print(...), ..., logger.Panicln(...): the package-level functions,
\* which report a logger that was never set and return
LogFunction ==
  /\ ~Ended
  /\ \E function \in LogMethods, env \in Envs :
       IF logger = 0
       THEN /\ calls' = Append(calls, MethodCall("log", "package", 0, function,
                                                 "", "uninitialized"))
            /\ UNCHANGED <<console, file>>
            /\ UNCHANGED pipeVars
       ELSE logAt(logger, "package", function,
                  delegate(handles[logger], packageDelegate(function)), env)
  /\ UNCHANGED writerVars
  /\ UNCHANGED <<loc, lg, cons, kube, taken, handles, logger>>

NextM == WithFields \/ WithKafkaFilterFn \/ WithKafkaKeyFn \/ LogMethod
           \/ LogFunction

SpecM == InitM /\ [][NextM]_vars

\* ================================================================= claims
\* a goroutine is inside sendMessage: Write has called it and it has not
\* returned
InSendMessage(g) == pc[g] = "w_send"

\* C1: once a Close call has returned, no Write is inside sendMessage: Close
\* does not return during a send and no send starts after it returned.
C1_NoSendAfterClose ==
  closeRets # <<>> => \A g \in Goroutines : ~InSendMessage(g)

\* C2: a Write that starts when the closed flag is set never gets to
\* pendingWg.Add or sendMessage and returns (0, EINVAL); the closed flag is
\* never cleared.
C2_LateWriteRejected ==
  /\ [](\A g \in Goroutines :
          lateStart[g] =>
            /\ pc[g] \notin {"w_add", "w_send", "w_done"}
            /\ (pc[g] = "idle" /\ ret[g][1] = "Write"
                  => ret[g] = <<"Write", 0, EINVAL>>))
  /\ [][closed # 0 => closed' # 0]_vars

\* a Write that started after the flag was set has returned
C2_Witness ==
  \E g \in Goroutines :
    lateStart[g] /\ pc[g] = "idle" /\ ret[g] = <<"Write", 0, EINVAL>>

\* C3: of the Close calls that return, the first returns nil and every
\* other one EINVAL; the step in which a Close fails leaves the closed flag
\* and the pending counter as they were and the mutex free.
C3_OneCloseSucceeds ==
  /\ [](\A i \in 1..Len(closeRets) :
          closeRets[i] = (IF i = 1 THEN "nil" ELSE EINVAL))
  /\ [][\A g \in Goroutines :
          (pc[g] = "c_check" /\ pc'[g] = "idle")
            => /\ closed' = closed
               /\ pending' = pending
               /\ closeMut' = 0
               /\ ret'[g] = <<"Close", 0, EINVAL>>]_vars

\* two Close calls have returned
C3_Witness == Len(closeRets) >= 2 /\ closeRets[2] = EINVAL

\* ------------------------------------------------ the last sendMessage call
\* it got past json.Unmarshal
LastParsed == last.res # "none" /\ last.why # "unmarshal"
\* the record as json.Unmarshal made it
LastRecord == Unmarshal(last.msg).map
\* the record after the filter hook, if one was registered, ran
LastFiltered ==
  IF last.filterFn # "nil" THEN callFilterFn(last.filterFn, last.keyOut[1])
  ELSE last.keyOut[1]
\* the record in the value of the message it placed
LastValue == Unmarshal(last.msgs[1].Value).map

\* C4: a sendMessage call returns nil exactly when it placed one message,
\* the one it built; a call that does not return nil leaves the channel as
\* it was, so the record is not queued for a retry.
C4_NilIffOneMessage ==
  [][nSends' # nSends =>
       /\ (last'.res = "nil") <=> (Len(input') = Len(input) + 1)
       /\ last'.res = "nil" => input' = Append(input, last'.msgs[1])
       /\ last'.res # "nil" => input' = input /\ last'.msgs = <<>>]_vars

\* a call failed in json.Marshal after an earlier one had delivered
C4_Witness == last.res = "err" /\ last.why = "marshal" /\ Len(input) = 1

\* C5: the steps act in the order topic, key, filter hook, enrichment,
\* serialisation: key derivation, the key function and the filter hook get a
\* record without the topic field and with the id it came with (or none);
\* the filter hook gets what key derivation left, enrichment what the filter
\* hook left, and an extracted key is the field's value in the record as it
\* came.
C5_StepOrder ==
  LastParsed =>
    /\ TopicKey \notin DOMAIN last.keyIn[1]
    /\ last.keyIn[1] = Delete(LastRecord, TopicKey)
    /\ last.keyFnSaw # <<>> =>
         /\ TopicKey \notin DOMAIN last.keyFnSaw[1]
         /\ Get(last.keyFnSaw[1], CEIDKey) = Get(LastRecord, CEIDKey)
    /\ last.filterSaw # <<>> =>
         /\ TopicKey \notin DOMAIN last.filterSaw[1]
         /\ Get(last.filterSaw[1], CEIDKey) \in {Get(LastRecord, CEIDKey), NilValue}
         /\ last.filterSaw[1] = last.keyOut[1]
    /\ last.enrichSaw # <<>> => last.enrichSaw[1] = LastFiltered
    /\ (kp.Key = ExtractedKey /\ last.keyOut # <<>>) =>
         last.key = Get(LastRecord, kp.KeyName).v
    /\ last.res = "nil" =>
         last.msgs[1].Value = Marshal(Unmarshal(last.msg).isNil, last.final[1]).text

\* a call with a topic field went through the key function, the filter hook
\* and enrichment
C5_Witness ==
  /\ last.res = "nil"
  /\ TopicKey \in DOMAIN LastRecord
  /\ last.keyFnSaw # <<>>
  /\ last.filterSaw # <<>>
  /\ last.enrichSaw # <<>>

\* C6: with the HMAC id and a filter hook, the id of the message placed is
\* the HMAC of the data field as the filter hook left it.
C6_IDIsHMACOfFilteredBody ==
  (last.res = "nil" /\ kp.enableCE /\ ce.SetID = CEHMAC /\ last.filterFn # "nil")
    => Get(LastValue, CEIDKey)
         = Str(HMACSum(ce.HMACKey, Get(LastFiltered, CEDataKey).v))

\* C7: a message placed for a record with a string topic field goes to that
\* topic, one for a record without the field to the configured topic; its
\* value has no topic field; the configured topic never changes.
C7_TopicOverride ==
  /\ [](last.res = "nil" =>
          /\ last.msgs[1].Topic = (IF TopicKey \in DOMAIN LastRecord
                                   THEN LastRecord[TopicKey].v ELSE kp.Topic)
          /\ TopicKey \notin DOMAIN LastValue)
  /\ [][kp'.Topic = kp.Topic]_vars

\* a record went to its own topic and the next one to the configured topic
C7_Witness ==
  /\ Len(input) = 2
  /\ input[1].Topic = "custom"
  /\ input[2].Topic = kp.Topic
  /\ last.res = "nil"

\* C8: with the extracted key, a record whose key field is absent or no
\* string makes sendMessage return an error; the call places nothing, runs
\* neither the filter hook nor enrichment and leaves the hash and the
\* counter alone.
C8_MissingKeyFailsClosed ==
  [][(/\ nSends' # nSends
      /\ kp.Key = ExtractedKey
      /\ last'.why # "unmarshal"
      /\ ~IsString(Get(Delete(Unmarshal(last'.msg).map, TopicKey), kp.KeyName)))
       => /\ last'.res = "err"
          /\ last'.msgs = <<>>
          /\ input' = input
          /\ last'.filterSaw = <<>>
          /\ last'.enrichSaw = <<>>
          /\ hmacText' = hmacText
          /\ incr' = incr]_vars

\* such a call happened on a wrapper with a filter hook and enrichment
C8_Witness ==
  /\ kp.Key = ExtractedKey
  /\ last.why = "Extracted key missing"
  /\ Get(last.keyIn[1], kp.KeyName).t = "num"
  /\ last.filterFn # "nil"
  /\ kp.enableCE

\* C9 as stated: with the extracted key and a string key field, the key is
\* the field's value, key derivation removes just that field, and the value
\* of the message does not contain it.
C9_ExtractedFieldNotInPayload ==
  (kp.Key = ExtractedKey /\ last.res = "nil") =>
    /\ last.key = Get(last.keyIn[1], kp.KeyName).v
    /\ last.keyOut[1] = Delete(last.keyIn[1], kp.KeyName)
    /\ kp.KeyName \notin DOMAIN LastValue

\* C9 amended: the key is the field's value and key derivation removes just
\* that field; the value of the message contains a field of that name only
\* if the filter hook put one there or the field is id and enrichment wrote
\* it.
C9_ExtractedFieldRemoved ==
  (kp.Key = ExtractedKey /\ LastParsed /\ IsString(Get(last.keyIn[1], kp.KeyName)))
    => /\ last.why # "Extracted key missing"
       /\ last.key = Get(last.keyIn[1], kp.KeyName).v
       /\ last.keyOut[1] = Delete(last.keyIn[1], kp.KeyName)
       /\ (last.res = "nil" /\ kp.KeyName \in DOMAIN LastValue) =>
            \/ kp.KeyName \in DOMAIN LastFiltered
            \/ kp.enableCE /\ kp.KeyName = CEIDKey

\* the subject was extracted as the key of a message that was placed
C9_Witness ==
  /\ kp.Key = ExtractedKey
  /\ kp.KeyName = CESubjectKey
  /\ last.res = "nil"
  /\ last.key = "info"
  /\ CEDataKey \in DOMAIN LastValue

\* C10: every message on the producer's input channel has a key that is not
\* empty.
C10_KeyNonEmpty == \A i \in 1..Len(input) : input[i].Key # ""

\* ------------------------------------------- the messages on the channel
\* the id field in the value of the i-th message placed
MsgID(i) == Get(Unmarshal(input[i].Value).map, CEIDKey)
\* the data field (the message body) in the value of the i-th message placed
MsgBody(i) == Get(Unmarshal(input[i].Value).map, CEDataKey)

\* C11: no sendMessage call ends in a panic: every call returns nil or an
\* error.
C11_NeverPanics == last.res # "panic"

\* C12: with the HMAC id, two messages placed by one wrapper have the same
\* id exactly when they have the same body.
C12_IDDependsOnBodyOnly ==
  (kp.enableCE /\ ce.SetID = CEHMAC) =>
    \A i, j \in 1..Len(input) : (MsgBody(i) = MsgBody(j)) <=> (MsgID(i) = MsgID(j))

\* the ids the generator of one wrapper is to return, in call order
ExpectedIDs ==
  << "00000000000000000001", "00000000000000000002", "00000000000000000003",
     "00000000000000000004", "00000000000000000005" >>

C15_FuncIDLeavesID ==
  (last.res = "nil" /\ kp.enableCE /\ ce.SetID = CEFuncID) =>
    /\ (CEIDKey \in DOMAIN LastValue) <=> (CEIDKey \in DOMAIN LastFiltered)
    /\ Get(LastValue, CEIDKey) = Get(LastFiltered, CEIDKey)

\* C16: with enrichment enabled, the value of every message placed has the
\* fields id, source, specversion and type.
C16_EnvelopeFieldsInValue ==
  (last.res = "nil" /\ kp.enableCE) =>
    {CEIDKey, CESourceKey, CESpecVersionKey, CETypeKey} \subseteq DOMAIN LastValue

\* C13: with the incremental id and goroutines sending concurrently, no two
\* messages placed have the same id, and when the goroutines are back and
\* each of their N calls placed a message, the ids are those of 1..N.
C13_ConcurrentIDsDistinct ==
  /\ \A i, j \in 1..Len(input) : i # j => MsgID(i) # MsgID(j)
  /\ ((\A g \in Senders : pc[g] = "idle") /\ Len(input) > 0
        /\ \A g \in Senders : loc[g].res \in {"none", "nil"})
       => {MsgID(i) : i \in 1..Len(input)}
            = {Str(ExpectedIDs[n]) : n \in 1..Len(input)}

\* C19: a sendMessage call invokes the hook value it tested, never another
\* one and never nil.
C19_HookTestedIsHookInvoked ==
  \A g \in Senders :
    /\ loc[g].calledKeyFn # "none" =>
         loc[g].calledKeyFn = loc[g].testedKeyFn /\ loc[g].calledKeyFn # "nil"
    /\ loc[g].calledFilterFn # "none" =>
         loc[g].calledFilterFn = loc[g].testedFilterFn
         /\ loc[g].calledFilterFn # "nil"

\* --------------------------------------------------- claims on the logger
\* the records a sink with this format is due for the calls i, i+1, ... made
\* so far: one for each call at or above the level of the logger
RECURSIVE expectedFrom(_, _)
expectedFrom(i, format) ==
  IF i > Len(calls) THEN <<>>
  ELSE (IF LevelEnabled(MethodLevel(calls[i].method))
        THEN <<Format(format, Entry(calls[i].method, calls[i].fields))>>
        ELSE <<>>)
       \o expectedFrom(i + 1, format)

\* the data field of a message submitted to the broker
DataOf(m) ==
  IF \E j \in 1..Len(m.Value.pairs) : m.Value.pairs[j].k = CEDataKey
  THEN (m.Value.pairs[CHOOSE j \in 1..Len(m.Value.pairs) :
                        m.Value.pairs[j].k = CEDataKey]).x
  ELSE NilValue

\* C17: on either backend and for every subset of the console, file and
\* broker sinks, once the log calls made so far have all returned, every
\* enabled sink has been handed each call at or above the level exactly
\* once, in the format of that sink: the console and the file hold exactly
\* those records, also when both are enabled, and the broker sink has had
\* one sendMessage call for each of them.
C17_EverySinkGetsEveryRecordOnce ==
  ~Crashed =>
    /\ lg.cfg.EnableConsole => console = expectedFrom(1, lg.cfg.ConsoleFormat)
    /\ lg.cfg.EnableFile => file = expectedFrom(1, lg.cfg.FileFormat)
    /\ lg.cfg.EnableKafka => nSends = Len(expectedFrom(1, lg.cfg.KafkaFormat))

\* C18: when sendMessage of the broker sink has not succeeded for the last
\* log call, the call has returned to its caller and the console and the
\* file, where enabled, hold one record for every call at or above the
\* level, this one included.
C18_BrokerFailureLeavesOtherSinks ==
  (lg.cfg.EnableKafka /\ last.res \in {"err", "panic"}) =>
    /\ calls[Len(calls)].ret = "returned"
    /\ lg.cfg.EnableConsole => console = expectedFrom(1, lg.cfg.ConsoleFormat)
    /\ lg.cfg.EnableFile => file = expectedFrom(1, lg.cfg.FileFormat)

\* C20: at level info, after Debugf, Infof, Warnf, Errorf, Print, Printf and
\* Println have been called in that order without fields, every enabled
\* sink holds exactly the six records of the calls after Debugf, in call
\* order; on the broker sink, fed cloudevents records, the six messages are
\* submitted in call order to the default topic.
C20_SixRecordsPerSinkInCallOrder ==
  (/\ lg.level = InfoType
   /\ Len(calls) = Len(Methods)
   /\ \A i \in 1..Len(calls) : calls[i].fields = <<>>) =>
    /\ lg.cfg.EnableConsole =>
         /\ Len(console) = Len(Methods) - 1
         /\ console = expectedFrom(2, lg.cfg.ConsoleFormat)
    /\ lg.cfg.EnableFile =>
         /\ Len(file) = Len(Methods) - 1
         /\ file = expectedFrom(2, lg.cfg.FileFormat)
    /\ (lg.cfg.EnableKafka /\ lg.cfg.KafkaFormat = CEFormat) =>
         /\ Len(input) = Len(Methods) - 1
         /\ \A i \in 1..Len(input) :
              /\ input[i].Topic = DefaultTopic
              /\ DataOf(input[i]) = Str(Methods[i + 1] \o " using")

\* ----------------------------------------------- claims on construction
\* the id the last sendMessage call stored in the record
LastID == Get(last.final[1], CEIDKey)

\* C21: in a wrapper built with cloudevents, source, specversion and type of
\* the fixed fields are the configured strings, or the package defaults
\* where the configuration has the empty string, hence never empty, and they
\* stay so after every record; and an HMAC id is computed with the
\* configured secret, or with the default secret when none is configured,
\* over the bytes the hash has been fed.
C21_EmptyStringsGetDefaults ==
  (cons.stage = "built" /\ cons.cecfg.EnableCloudEvents) =>
    /\ ce.fields =
         << Pair(CESourceKey, Str(OrDefault(cons.cecfg.Source, DefaultSource))),
            Pair(CESpecVersionKey,
                 Str(OrDefault(cons.cecfg.SpecVersion, DefaultSpecVersion))),
            Pair(CETypeKey, Str(OrDefault(cons.cecfg.Type, DefaultType))) >>
    /\ \A i \in 1..Len(ce.fields) : ce.fields[i].x.v # ""
    /\ (ce.SetID = CEHMAC /\ last.res = "nil") =>
         LastID = Str(HMACSum(OrDefault(cons.cecfg.HMACKey, DefaultHMACKey),
                              hmacText))

\* -------------------------------------------------- claims on the key
\* C22: a message submitted under the function strategy has the return
\* value of the key hook as its key when a hook is registered; with no hook
\* its key is the value of the level field of the record, the field named
\* subject when cloudevents are enabled with the level set as subject and
\* level otherwise.
C22_FunctionKeyOrLevel ==
  (kp.Key = FunctionKey /\ last.res = "nil") =>
    IF last.keyFn # "nil"
    THEN last.msgs[1].Key = callKeyFn(last.keyFn, last.keyIn[1])
    ELSE last.msgs[1].Key =
           Get(last.keyIn[1],
               IF kp.enableCE /\ ce.SetSubjectLevel
               THEN CESubjectKey ELSE "level").v

\* a record was submitted under the function strategy without a hook and
\* got the value of its subject field as key
C22_Witness ==
  /\ kp.Key = FunctionKey
  /\ last.res = "nil"
  /\ last.keyFn = "nil"
  /\ kp.enableCE
  /\ last.msgs[1].Key = "info"

\* C23: under the fixed strategy no sendMessage call ends with a failure of
\* the key derivation, and every message submitted has the key name of the
\* wrapper as its key, whatever the record holds and whichever filter or key
\* hook is registered.
C23_FixedKeyIsKeyName ==
  kp.Key = FixedKey =>
    /\ last.why \notin {"Extracted key missing", "level is no string"}
    /\ \A i \in 1..Len(input) : input[i].Key = kp.KeyName

\* under the fixed strategy with a key hook and a filter hook registered, a
\* record was submitted with the configured key name
C23_Witness ==
  /\ kp.Key = FixedKey
  /\ last.res = "nil"
  /\ last.keyFn # "nil"
  /\ last.filterFn # "nil"
  /\ last.msgs[1].Key = "svc1"

\* C24: a wrapper that was constructed has the default broker list where
\* none was given and the given list otherwise, the default topic where the
\* topic given is empty and the given topic otherwise, and, under the fixed
\* strategy, the default key name where the key name given is empty and the
\* given key name otherwise: its topic and its fixed key name are never
\* empty.
C24_DefaultsForEmpty ==
  cons.stage = "built" =>
    /\ Len(cons.prod.Brokers) = 0 => kp.Brokers = DefaultBrokers
    /\ (Len(cons.prod.Brokers) > 0 /\ cons.prod.Brokers[1] # "") =>
         kp.Brokers = cons.prod.Brokers
    /\ Len(kp.Brokers) > 0
    /\ kp.Topic = OrDefault(cons.prod.Topic, DefaultTopic)
    /\ kp.Topic # ""
    /\ kp.Key = cons.prod.Key
    /\ kp.Key = FixedKey =>
         /\ kp.KeyName = OrDefault(cons.prod.KeyName, DefaultKeyName)
         /\ kp.KeyName # ""

\* a wrapper was constructed from a configuration without brokers, topic
\* and key name and has the three defaults
C24_Witness ==
  /\ cons.stage = "built"
  /\ cons.prod.Brokers = <<>>
  /\ cons.prod.Topic = ""
  /\ cons.prod.Key = FixedKey
  /\ cons.prod.KeyName = ""
  /\ kp.Brokers = DefaultBrokers
  /\ kp.Topic = DefaultTopic
  /\ kp.KeyName = DefaultKeyName

C26_ZeroRetryKeepsClientDefault ==
  cons.stage = "built" =>
    /\ cons.sarama.ProdRetryMax =
         IF cons.prod.ProdRetryMax = 0 THEN SaramaDefaults.ProdRetryMax
         ELSE cons.prod.ProdRetryMax
    /\ cons.sarama.ProdRetryFreq =
         IF cons.prod.ProdRetryFreq = 0 THEN SaramaDefaults.ProdRetryFreq
         ELSE cons.prod.ProdRetryFreq
    /\ cons.sarama.MetaRetryMax =
         IF cons.prod.MetaRetryMax = 0 THEN SaramaDefaults.MetaRetryMax
         ELSE cons.prod.MetaRetryMax
    /\ cons.sarama.MetaRetryFreq =
         IF cons.prod.MetaRetryFreq = 0 THEN SaramaDefaults.MetaRetryFreq
         ELSE cons.prod.MetaRetryFreq

\* ------------------------------------------- claims on the bounded queue
\* C27: while the client keeps receiving from producer.Input(), so that
\* every sendMessage of a Write returns, every Close call returns; and a
\* Close that waits for the writes in flight does not return in a step
\* taken while a Write is inside sendMessage, which it leaves only when
\* the channel has room.
C27_CloseReturnsOnceWritesDo ==
  /\ \A g \in Senders :
       (pc[g] \in {"c_lock", "c_check", "c_wait"}) ~> (pc[g] = "idle")
  /\ [][(\E w \in Senders : pc[w] = "w_send") =>
          \A g \in Senders : ~(pc[g] = "c_wait" /\ pc'[g] = "idle")]_vars

\* a Close waits while a Write is blocked on the full channel
C27_Witness ==
  \E g, w \in Senders :
    /\ pc[g] = "c_wait"
    /\ pc[w] = "w_send"
    /\ Queued = QueueCap
    /\ arg[w] # Malformed

\* ------------------------------------------------------ claims on kubeutil
\* a manifest directory of the form <integer customer number>/<supported
\* resource type>: exactly one "/", a signed or unsigned decimal numeral that
\* an int holds before it and a supported resource type after it
HasManifestForm(dir) ==
  \E i \in 1..Len(dir) :
    /\ dir[i] = "/"
    /\ \A j \in 1..Len(dir) : dir[j] = "/" => j = i
    /\ AtoiOK(SubSeq(dir, 1, i - 1))
    /\ SubSeq(dir, i + 1, Len(dir)) \in _resources

\* C28: KubeConfig.New(conf) returns nil exactly when conf.ApiVersion is a
\* supported version, conf.Kind a supported kind, conf.ManifestDirectory has
\* the form <integer customer number>/<supported resource type> and conf.Name
\* is not empty; in every other case it returns an error
C28_NewAcceptsExactlyValidConfigs ==
  kube.stage = "done" =>
    (kube.err = "nil" <=>
       /\ kube.conf.ApiVersion \in _versions
       /\ kube.conf.Kind \in _kinds
       /\ HasManifestForm(kube.conf.ManifestDirectory)
       /\ kube.conf.Name # "")

\* New returned nil for the configuration of TestGoodConfig
C28_Witness ==
  /\ kube.stage = "done"
  /\ kube.err = "nil"
  /\ kube.conf.ManifestDirectory =
       <<"0","0","0","1","/","E","v","e","n","t","S","o","u","r","c","e">>
  /\ kube.k.Name = "Good configuration"

\* ---------------------------------------------- claims on the Logger methods
\* C29: WithKafkaFilterFn and WithKafkaKeyFn work on every Logger obtained
\* from NewLogger with the broker sink enabled, a Logger derived from it
\* through WithFields included, for the zap and the logrus backend: the call
\* does not fail, and the hook is installed on the producer wrapper that the
\* logger's records are sent through.
C29_HooksWorkOnDerivedLoggers ==
  \A i \in 1..Len(calls) :
    calls[i].kind = "hook" =>
      /\ calls[i].ret = "returned"
      /\ handles[calls[i].handle].hook = "kp"

\* the level and the ending that the name of a method announces
NamedLevel(method) ==
  CASE method \in {"Debug", "Debugf", "Debugln"} -> DebugType
    [] method \in {"Warn", "Warnf", "Warnln"} -> WarnType
    [] method \in {"Error", "Errorf", "Errorln"} -> ErrorType
    [] method \in {"Fatal", "Fatalf", "Fatalln"} -> FatalType
    [] method \in {"Panic", "Panicf", "Panicln"} -> PanicType
    [] OTHER -> InfoType

NamedEnding(method) ==
  CASE method \in {"Fatal", "Fatalf", "Fatalln"} -> "exit"
    [] method \in {"Panic", "Panicf", "Panicln"} -> "panic"
    [] OTHER -> "returned"

\* C30: every method of the Logger interface logs at the level its name says
\* (Print, Printf and Println at info); Panicf logs at panic level and then
\* panics, like Panic and Panicln, and does not end the process as Fatalf
\* does; for the zap backend, the logrus backend and the package-level
\* functions of a logger that was set, when the broker sink did not panic
\* under the call.
C30_MethodsLogAtNamedLevel ==
  \A i \in 1..Len(calls) :
    (calls[i].kind = "log" /\ calls[i].ret # "uninitialized"
       /\ last.res # "panic") =>
      /\ calls[i].level = NamedLevel(calls[i].method)
      /\ calls[i].ret = NamedEnding(calls[i].method)

====
